---- MODULE Spec2Model ----
(***************************************************************************)
(* Skyvault KYC: the compliance rule engine (app/validator.py), the        *)
(* notifier (app/emailer.py) and the processing pipeline (app/main.py).    *)
(*                                                                         *)
(* Python values are modelled as tagged records with the same five fields  *)
(* so that any two values can be compared:                                 *)
(*   t : "null" | "bool" | "int" | "str" | "list" | "dict"                 *)
(*   b : the boolean, n : the integer (for a list: its length),            *)
(*   s : the string as a sequence of one-character strings,                *)
(*   d : the dict as a function from keys to values.                       *)
(* A key that is missing from a dict is missing from DOMAIN d.             *)
(***************************************************************************)
EXTENDS Integers, Sequences, FiniteSets, TLC

VARIABLES
    data,        \* validator: the record handed to validate (mutated by it)
    form_type,   \* validator: the form type handed to validate
    vstate,      \* validator: "ready" | "returned" | "raised"
    result,      \* validator: the ValidationResult under construction / returned
    before,      \* validator: the record as it was before the first call
    again,       \* validator: the outcome of a second call on the same record
    field_path,  \* validator: the dotted path handed to _get_nested
    nested,      \* validator: what _get_nested returned for it (NotFetched before)
    request,     \* webhook: the TranscriptRequest of each request
    hstate,      \* webhook: "none" | "quick" | "rejected" | "responded" | "error"
    response,    \* webhook: the ExtractionResponse returned (None before)
    queued,      \* webhook: how many background tasks the handler added
    quick,       \* webhook: the outcome of quick_extract (NoOutcome before)
    pc,          \* run: "none" | "extract" | "validate" | "generate" | "notify"
                 \*      | "completed" | "failed"
    calls,       \* run: the stages started so far, in order
    raised,      \* run: the stage whose exception ended the run ("none" if none)
    rdata,       \* run: extracted_data
    rreport,     \* run: validation_result
    pdf_path,    \* run: pdf_path
    sent,        \* run: what send_kyc_email returned ("none" before)
    clock,       \* output directory: the wall clock, in whole seconds
    files,       \* output directory: the files in it, each with the run that wrote it
    sreq,        \* sync endpoint: the TranscriptRequest
    sstate,      \* sync endpoint: "none" | "extract" | "validate" | "responded" | "error"
    sdata,       \* sync endpoint: extracted_data
    sresp,       \* sync endpoint: the body returned (status "" before)
    xreply,      \* extractor: the reply of the model API to one call
    xfull,       \* extractor: the outcome of extract on it (NoOutcome before)
    xquick       \* extractor: the outcome of quick_extract on it (NoOutcome before)

vvars == <<data, form_type, vstate, result, before, again, field_path, nested>>
hvars == <<request, hstate, response, queued, quick>>
rvars == <<pc, calls, raised, rdata, rreport, pdf_path, sent>>
ovars == <<clock, files>>
svars == <<sreq, sstate, sdata, sresp>>
xvars == <<xreply, xfull, xquick>>
vars == <<vvars, hvars, rvars, ovars, svars, xvars>>

----------------------------------------------------------------------------
(* Python values *)

None == [t |-> "null", b |-> FALSE, n |-> 0, s |-> <<>>, d |-> <<>>]
BoolV(x) == [t |-> "bool", b |-> x, n |-> 0, s |-> <<>>, d |-> <<>>]
IntV(x) == [t |-> "int", b |-> FALSE, n |-> x, s |-> <<>>, d |-> <<>>]
StrV(x) == [t |-> "str", b |-> FALSE, n |-> 0, s |-> x, d |-> <<>>]
ListV(len) == [t |-> "list", b |-> FALSE, n |-> len, s |-> <<>>, d |-> <<>>]
DictV(f) == [t |-> "dict", b |-> FALSE, n |-> 0, s |-> <<>>, d |-> f]
EmptyDict == DictV(<<>>)

\* Marker used only while building inputs: the key is left out of the dict.
Absent == [t |-> "absent", b |-> FALSE, n |-> 0, s |-> <<>>, d |-> <<>>]
MkDict(f) == DictV([k \in {x \in DOMAIN f : f[x].t # "absent"} |-> f[k]])

\* bool(v)
Truthy(v) ==
    CASE v.t = "null" -> FALSE
      [] v.t = "bool" -> v.b
      [] v.t = "int" -> v.n # 0
      [] v.t = "str" -> v.s # <<>>
      [] v.t = "list" -> v.n > 0
      [] v.t = "dict" -> DOMAIN v.d # {}

IsDict(v) == v.t = "dict"
\* isinstance(v, (int, bool)): the values Python compares and adds as numbers
IsNum(v) == v.t \in {"int", "bool"}
Num(v) == IF v.t = "bool" THEN (IF v.b THEN 1 ELSE 0) ELSE v.n

\* dict.get(key, default) on a value that is a dict
DictGet(v, key, default) == IF key \in DOMAIN v.d THEN v.d[key] ELSE default

\* `x or 0`
OrZero(v) == IF Truthy(v) THEN v ELSE IntV(0)

\* a + b raises TypeError unless both are numbers, both strings or both lists
AddOk(a, c) ==
    \/ IsNum(a) /\ IsNum(c)
    \/ a.t = "str" /\ c.t = "str"
    \/ a.t = "list" /\ c.t = "list"
Add(a, c) ==
    CASE IsNum(a) -> IntV(Num(a) + Num(c))
      [] a.t = "str" -> StrV(a.s \o c.s)
      [] OTHER -> ListV(a.n + c.n)

----------------------------------------------------------------------------
(* Strings used by the rules *)

HIGH == <<"H", "I", "G", "H">>
LOW == <<"L", "O", "W">>
NIL == <<"N", "I", "L">>
MODERATE == <<"M", "O", "D", "E", "R", "A", "T", "E">>
GROWTH == <<"G", "R", "O", "W", "T", "H">>
INCOME == <<"I", "N", "C", "O", "M", "E">>
TenPlus == <<"1", "0", "+">>
SomeText == <<"x">>

IsStr(v, chars) == v.t = "str" /\ v.s = chars

----------------------------------------------------------------------------
(* ValidationResult *)

ValidationResult ==
    [is_valid |-> TRUE,
     exemption_status |-> "UNKNOWN",
     red_flags |-> <<>>,
     warnings |-> <<>>,
     missing_required |-> <<>>,
     suitability_concerns |-> <<>>,
     follow_up_needed |-> FALSE]

\* A message of the report: which text it is, and the number (n) or the value (v)
\* formatted into it.
Msg(id, num) == [id |-> id, n |-> num, v |-> None]
MsgV(id, val) == [id |-> id, n |-> 0, v |-> val]
\* A formatted text stored in the record: its template and the number in it.
TextV(id, num) == [t |-> "str", b |-> FALSE, n |-> num, s |-> <<id>>, d |-> <<>>]

\* Outcome of a sub-checker: it returned (ok) or raised, leaving data and result
\* as they were at that point.
Ret(dt, r) == [ok |-> TRUE, data |-> dt, result |-> r]
Raise(dt, r) == [ok |-> FALSE, data |-> dt, result |-> r]

----------------------------------------------------------------------------
(* KYCValidator: class constants *)

ACCREDITED_INCOME_SINGLE == 200000
ACCREDITED_INCOME_JOINT == 300000
ACCREDITED_NFA == 1000000
ACCREDITED_NET_ASSETS == 5000000
ELIGIBLE_INCOME_SINGLE == 75000
ELIGIBLE_INCOME_JOINT == 125000
ELIGIBLE_NET_ASSETS == 400000

\* A dotted path is a sequence of key tokens and "." separator tokens.
Dot == "."
REQUIRED_FIELDS(ft) ==
    CASE ft = "individual" ->
           << <<"client_name", Dot, "first">>,
              <<"client_name", Dot, "last">>,
              <<"address", Dot, "city">>,
              <<"address", Dot, "province">>,
              <<"contact", Dot, "email">>,
              <<"personal", Dot, "dob">>,
              <<"employment", Dot, "occupation">>,
              <<"financials", Dot, "annual_income">>,
              <<"financials", Dot, "net_financial_assets">>,
              <<"investment_profile", Dot, "risk_tolerance">>,
              <<"investment_profile", Dot, "time_horizon">>,
              <<"investment_profile", Dot, "investment_objective">> >>
      [] ft = "corporate" ->
           << <<"corporate_name">>,
              <<"business_number">>,
              <<"authorized_persons">>,
              <<"financials", Dot, "annual_income">>,
              <<"financials", Dot, "net_assets">> >>
      [] ft = "trade" ->
           << <<"client_name">>,
              <<"investment_details", Dot, "issuer">>,
              <<"investment_details", Dot, "amount">>,
              <<"investment_details", Dot, "source_of_funds">> >>
      [] OTHER -> <<>>

\* path.split("."): the keys between the separators ("" for an empty segment)
RECURSIVE Split(_)
Split(path) ==
    LET dots == {i \in 1..Len(path) : path[i] = Dot}
        Key(seg) == IF seg = <<>> THEN "" ELSE seg[1]
    IN  IF dots = {}
        THEN <<Key(path)>>
        ELSE LET i == CHOOSE j \in dots : \A k \in dots : j <= k
             IN  <<Key(SubSeq(path, 1, i - 1))>> \o Split(SubSeq(path, i + 1, Len(path)))

\* The loop of _get_nested over the keys, from `value`
RECURSIVE Walk(_, _)
Walk(value, keys) ==
    IF keys = <<>> THEN value
    ELSE IF IsDict(value)
         THEN Walk(DictGet(value, Head(keys), None), Tail(keys))
         ELSE None

\* Mutant: only the first segment of the path is followed
_get_nested_FirstKey(dt, path) == Walk(dt, SubSeq(Split(path), 1, 1))

_get_nested(dt, path) == Walk(dt, Split(path))

\* Mutant: every falsy value counts as missing
IsMissing_Falsy(value) == ~Truthy(value)

\* value is None or value == ""
IsMissing(value) == value.t = "null" \/ (value.t = "str" /\ value.s = <<>>)

_check_required_fields(dt, ft, r) ==
    LET required == REQUIRED_FIELDS(ft)
        missing == SelectSeq(required, LAMBDA p : IsMissing(_get_nested(dt, p)))
    IN  Ret(dt, [r EXCEPT !.missing_required = r.missing_required \o missing])

----------------------------------------------------------------------------
(* _determine_exemption *)

\* Mutant: the NFA threshold taken as exclusive
AccreditedRule_NfaExclusive(annual_income, total_income, nfa, net_worth, income_stable) ==
    IF ~IsNum(annual_income) THEN "raise"
    ELSE IF Num(annual_income) >= ACCREDITED_INCOME_SINGLE /\ income_stable THEN "single"
    ELSE IF ~IsNum(total_income) THEN "raise"
    ELSE IF Num(total_income) >= ACCREDITED_INCOME_JOINT /\ income_stable THEN "joint"
    ELSE IF ~IsNum(nfa) THEN "raise"
    ELSE IF Num(nfa) > ACCREDITED_NFA THEN "nfa"
    ELSE IF ~IsNum(net_worth) THEN "raise"
    ELSE IF Num(net_worth) >= ACCREDITED_NET_ASSETS THEN "net_worth"
    ELSE "none"

\* Mutant: the NFA rule tried before the joint-income rule
AccreditedRule_NfaFirst(annual_income, total_income, nfa, net_worth, income_stable) ==
    IF ~IsNum(annual_income) THEN "raise"
    ELSE IF Num(annual_income) >= ACCREDITED_INCOME_SINGLE /\ income_stable THEN "single"
    ELSE IF ~IsNum(nfa) THEN "raise"
    ELSE IF Num(nfa) >= ACCREDITED_NFA THEN "nfa"
    ELSE IF ~IsNum(total_income) THEN "raise"
    ELSE IF Num(total_income) >= ACCREDITED_INCOME_JOINT /\ income_stable THEN "joint"
    ELSE IF ~IsNum(net_worth) THEN "raise"
    ELSE IF Num(net_worth) >= ACCREDITED_NET_ASSETS THEN "net_worth"
    ELSE "none"

\* The if/elif chain of the accredited rules, evaluated left to right; a
\* comparison of a non-number with a number raises TypeError.
AccreditedRule(annual_income, total_income, nfa, net_worth, income_stable) ==
    IF ~IsNum(annual_income) THEN "raise"
    ELSE IF Num(annual_income) >= ACCREDITED_INCOME_SINGLE /\ income_stable THEN "single"
    ELSE IF ~IsNum(total_income) THEN "raise"
    ELSE IF Num(total_income) >= ACCREDITED_INCOME_JOINT /\ income_stable THEN "joint"
    ELSE IF ~IsNum(nfa) THEN "raise"
    ELSE IF Num(nfa) >= ACCREDITED_NFA THEN "nfa"
    ELSE IF ~IsNum(net_worth) THEN "raise"
    ELSE IF Num(net_worth) >= ACCREDITED_NET_ASSETS THEN "net_worth"
    ELSE "none"

\* The eligible rules, reached only when no accredited rule matched (so every
\* figure has already been compared as a number).
EligibleRule(annual_income, total_income, net_worth) ==
    \/ Num(annual_income) >= ELIGIBLE_INCOME_SINGLE
    \/ Num(total_income) >= ELIGIBLE_INCOME_JOINT
    \/ Num(net_worth) >= ELIGIBLE_NET_ASSETS

AccreditationReason(rule, annual_income, total_income, nfa, net_worth) ==
    CASE rule = "single" -> TextV("Annual income >= $200,000 for 2 years", Num(annual_income))
      [] rule = "joint" -> TextV("Joint income >= $300,000 for 2 years", Num(total_income))
      [] rule = "nfa" -> TextV("Net financial assets >= $1,000,000", Num(nfa))
      [] rule = "net_worth" -> TextV("Net assets >= $5,000,000", Num(net_worth))
      [] OTHER -> None

\* Lines 175-183: the tier and its standing warning
SetExemptionStatus(r, is_accredited, is_eligible) ==
    IF is_accredited
    THEN [r EXCEPT !.exemption_status = "ACCREDITED"]
    ELSE IF is_eligible
         THEN [r EXCEPT !.exemption_status = "ELIGIBLE",
                        !.warnings = Append(r.warnings, Msg("eligible_100k_limit", 0))]
         ELSE [r EXCEPT !.exemption_status = "NON_ELIGIBLE",
                        !.warnings = Append(r.warnings, Msg("non_eligible_10k_limit", 0))]

\* Mutant: the write-back replaces the record by one holding only the section
StoreExemption_Fresh(dt, r, is_accredited, is_eligible, accreditation_reason) ==
    Ret(MkDict([exemption_status |->
                   MkDict([is_accredited |-> BoolV(is_accredited),
                           is_eligible |-> BoolV(is_eligible),
                           accreditation_reason |-> accreditation_reason])]), r)

\* Lines 185-190: the write-back into data["exemption_status"]; item assignment
\* on anything but a dict raises TypeError.
StoreExemption(dt, r, is_accredited, is_eligible, accreditation_reason) ==
    LET section == DictGet(dt, "exemption_status", EmptyDict)
        fields == [k \in DOMAIN section.d \cup {"is_accredited", "is_eligible", "accreditation_reason"} |->
                      CASE k = "is_accredited" -> BoolV(is_accredited)
                        [] k = "is_eligible" -> BoolV(is_eligible)
                        [] k = "accreditation_reason" -> accreditation_reason
                        [] OTHER -> section.d[k]]
    IN  IF ~IsDict(section)
        THEN Raise(dt, r)
        ELSE Ret(DictV([k \in DOMAIN dt.d \cup {"exemption_status"} |->
                          IF k = "exemption_status" THEN DictV(fields) ELSE dt.d[k]]), r)

_determine_exemption(dt, r) ==
    IF ~IsDict(dt) THEN Raise(dt, r)
    ELSE LET financials == DictGet(dt, "financials", EmptyDict) IN
    IF ~IsDict(financials) THEN Raise(dt, r)
    ELSE LET annual_income == OrZero(DictGet(financials, "annual_income", None))
             spouse_income == OrZero(DictGet(financials, "spouse_income", None))
         IN
    IF ~AddOk(annual_income, spouse_income) THEN Raise(dt, r)
    ELSE LET total_income == Add(annual_income, spouse_income)
             nfa == OrZero(DictGet(financials, "net_financial_assets", None))
             net_worth == OrZero(DictGet(financials, "net_worth", None))
             income_stable == Truthy(DictGet(financials, "income_stable_2_years", BoolV(FALSE)))
             rule == AccreditedRule(annual_income, total_income, nfa, net_worth, income_stable)
         IN
    IF rule = "raise" THEN Raise(dt, r)
    ELSE LET is_accredited == rule # "none"
             accreditation_reason ==
                 AccreditationReason(rule, annual_income, total_income, nfa, net_worth)
             is_eligible == ~is_accredited /\ EligibleRule(annual_income, total_income, net_worth)
         IN  StoreExemption(dt, SetExemptionStatus(r, is_accredited, is_eligible),
                            is_accredited, is_eligible, accreditation_reason)

----------------------------------------------------------------------------
(* _check_suitability *)

\* datetime.datetime.now().year
CurrentYear == 2026

Digits == <<"0", "1", "2", "3", "4", "5", "6", "7", "8", "9">>
DigitValue(c) == (CHOOSE i \in 1..10 : Digits[i] = c) - 1
IsDigit(c) == \E i \in 1..10 : Digits[i] = c

\* dob.split("-")[0] on a string: the characters before the first "-"
RECURSIVE FirstPart(_)
FirstPart(chars) ==
    IF chars = <<>> \/ Head(chars) = "-" THEN <<>>
    ELSE <<Head(chars)>> \o FirstPart(Tail(chars))

\* int(text) for plain decimal digits; anything else is a ValueError
IntOk(chars) == chars # <<>> /\ \A i \in 1..Len(chars) : IsDigit(chars[i])
RECURSIVE IntOf(_)
IntOf(chars) ==
    IF chars = <<>> THEN 0
    ELSE 10 * IntOf(SubSeq(chars, 1, Len(chars) - 1)) + DigitValue(chars[Len(chars)])

AddConcern(r, m) == [r EXCEPT !.suitability_concerns = Append(r.suitability_concerns, m)]
AddWarning(r, m) == [r EXCEPT !.warnings = Append(r.warnings, m)]
AddRedFlag(r, m) == [r EXCEPT !.red_flags = Append(r.red_flags, m)]
\* `if cond: <append m>` on the report r
ConcernIf(cond, r, m) == IF cond THEN AddConcern(r, m) ELSE r
WarningIf(cond, r, m) == IF cond THEN AddWarning(r, m) ELSE r
RedFlagIf(cond, r, m) == IF cond THEN AddRedFlag(r, m) ELSE r

\* Lines 230-246: the age checks (dob is truthy and a string here)
AgeChecks(r, dob, risk_tolerance, time_horizon) ==
    LET year_text == FirstPart(dob.s) IN
    IF ~IntOk(year_text) THEN r
    ELSE LET age == CurrentYear - IntOf(year_text)
             r1 == ConcernIf(age >= 65 /\ IsStr(risk_tolerance, HIGH),
                             r, Msg("age_high_risk", age))
         IN  ConcernIf(age >= 70 /\ IsStr(time_horizon, TenPlus),
                       r1, Msg("age_long_horizon", age))

_check_suitability(dt, r) ==
    LET profile == DictGet(dt, "investment_profile", EmptyDict)
        personal == DictGet(dt, "personal", EmptyDict)
    IN
    IF ~IsDict(profile) THEN Raise(dt, r)
    ELSE LET risk_tolerance == DictGet(profile, "risk_tolerance", None)
             risk_capacity == DictGet(profile, "risk_capacity", None)
             time_horizon == DictGet(profile, "time_horizon", None)
             objective == DictGet(profile, "investment_objective", None)
             retirement_year == DictGet(profile, "planned_retirement_year", None)
             r1 == ConcernIf(IsStr(risk_tolerance, HIGH)
                                /\ (IsStr(risk_capacity, LOW) \/ IsStr(risk_capacity, NIL)),
                             r, Msg("tolerance_exceeds_capacity", 0))
         IN
    IF Truthy(retirement_year) /\ ~IsNum(retirement_year) THEN Raise(dt, r1)
    ELSE LET years_to_retirement == Num(retirement_year) - CurrentYear
             r2 == ConcernIf(Truthy(retirement_year) /\ IsStr(time_horizon, TenPlus)
                                /\ years_to_retirement < 5,
                             r1, Msg("horizon_vs_retirement", years_to_retirement))
             r3 == ConcernIf(IsStr(objective, GROWTH) /\ IsStr(risk_tolerance, LOW),
                             r2, Msg("growth_low_tolerance", 0))
             r4 == WarningIf(IsStr(objective, INCOME) /\ IsStr(risk_tolerance, HIGH),
                             r3, Msg("income_high_tolerance", 0))
         IN
    IF ~IsDict(personal) THEN Raise(dt, r4)
    ELSE LET dob == DictGet(personal, "dob", None) IN
    IF ~Truthy(dob) THEN Ret(dt, r4)
    ELSE IF dob.t # "str" THEN Raise(dt, r4)
    ELSE Ret(dt, AgeChecks(r4, dob, risk_tolerance, time_horizon))

----------------------------------------------------------------------------
(* _check_aml_flags *)

PositionUnknown == StrV(<<"position unknown">>)
NFA_VERIFICATION == 1000000

\* Mutant: the HIO check is skipped once the PEP check has fired
_check_aml_flags_Elif(dt, r) ==
    LET aml == DictGet(dt, "aml", EmptyDict)
        financials == DictGet(dt, "financials", EmptyDict)
    IN
    IF ~IsDict(aml) THEN Raise(dt, r)
    ELSE LET r1 == RedFlagIf(Truthy(DictGet(aml, "is_pep", None)),
                             r, MsgV("pep", DictGet(aml, "pep_position", PositionUnknown)))
             r2 == RedFlagIf(~Truthy(DictGet(aml, "is_pep", None))
                                /\ Truthy(DictGet(aml, "is_hio", None)), r1, Msg("hio", 0))
         IN
    IF ~IsDict(financials) THEN Raise(dt, r2)
    ELSE LET r3 == WarningIf(Truthy(DictGet(financials, "borrowed_to_invest", None)),
                             r2, Msg("borrowed_funds", 0))
             nfa == OrZero(DictGet(financials, "net_financial_assets", None))
         IN
    IF ~IsNum(nfa) THEN Raise(dt, r3)
    ELSE Ret(dt, WarningIf(Num(nfa) >= NFA_VERIFICATION, r3, Msg("nfa_verification", Num(nfa))))

_check_aml_flags(dt, r) ==
    LET aml == DictGet(dt, "aml", EmptyDict)
        financials == DictGet(dt, "financials", EmptyDict)
    IN
    IF ~IsDict(aml) THEN Raise(dt, r)
    ELSE LET r1 == RedFlagIf(Truthy(DictGet(aml, "is_pep", None)),
                             r, MsgV("pep", DictGet(aml, "pep_position", PositionUnknown)))
             r2 == RedFlagIf(Truthy(DictGet(aml, "is_hio", None)), r1, Msg("hio", 0))
         IN
    IF ~IsDict(financials) THEN Raise(dt, r2)
    ELSE LET r3 == WarningIf(Truthy(DictGet(financials, "borrowed_to_invest", None)),
                             r2, Msg("borrowed_funds", 0))
             nfa == OrZero(DictGet(financials, "net_financial_assets", None))
         IN
    IF ~IsNum(nfa) THEN Raise(dt, r3)
    ELSE Ret(dt, WarningIf(Num(nfa) >= NFA_VERIFICATION, r3, Msg("nfa_verification", Num(nfa))))

----------------------------------------------------------------------------
(* _check_concentration *)

\* Mutant: the warning threshold one point lower
CONCENTRATION_WARN_PCT_Lower == 10 - 1

CONCENTRATION_WARN_PCT == 10
CONCENTRATION_CONCERN_PCT == 25

\* concentration_pct formatted with one decimal: tenths of a percent, rounded
PctTenths(amount, nfa) == (amount * 2000 + nfa) \div (2 * nfa)

\* Mutant: the percentage is compared without the nfa > 0 guard
_check_concentration_NoGuard(dt, r) ==
    LET financials == DictGet(dt, "financials", EmptyDict)
        investment == DictGet(dt, "investment_details", EmptyDict)
    IN
    IF ~IsDict(financials) \/ ~IsDict(investment) THEN Raise(dt, r)
    ELSE LET nfa == OrZero(DictGet(financials, "net_financial_assets", None))
             investment_amount == OrZero(DictGet(investment, "amount", None))
         IN
    IF ~IsNum(nfa) \/ ~IsNum(investment_amount) THEN Raise(dt, r)
    ELSE IF ~(Num(investment_amount) > 0) THEN Ret(dt, r)
    ELSE Ret(dt, WarningIf(Num(investment_amount) * 100 > CONCENTRATION_WARN_PCT * Num(nfa),
                           r, Msg("concentration_over_10", 0)))

_check_concentration(dt, r) ==
    LET financials == DictGet(dt, "financials", EmptyDict)
        investment == DictGet(dt, "investment_details", EmptyDict)
    IN
    IF ~IsDict(financials) \/ ~IsDict(investment) THEN Raise(dt, r)
    ELSE LET nfa == OrZero(DictGet(financials, "net_financial_assets", None))
             investment_amount == OrZero(DictGet(investment, "amount", None))
         IN
    IF ~IsNum(nfa) THEN Raise(dt, r)
    ELSE IF ~(Num(nfa) > 0) THEN Ret(dt, r)
    ELSE IF ~IsNum(investment_amount) THEN Raise(dt, r)
    ELSE IF ~(Num(investment_amount) > 0) THEN Ret(dt, r)
    ELSE LET a == Num(investment_amount)
             f == Num(nfa)
             \* (a / f) * 100 > p, computed exactly
             r1 == WarningIf(a * 100 > CONCENTRATION_WARN_PCT * f,
                             r, Msg("concentration_over_10", PctTenths(a, f)))
         IN  Ret(dt, ConcernIf(a * 100 > CONCENTRATION_CONCERN_PCT * f,
                               r1, Msg("concentration_over_25", PctTenths(a, f))))

----------------------------------------------------------------------------
(* validate *)

\* Mutant: one more missing field is tolerated
MISSING_LIMIT_Higher == 3 + 1

\* The number of missing required fields a report may have and stay valid
MISSING_LIMIT == 3

\* Mutant: warnings trigger follow-up too
FollowUpNeeded_Warnings(r) ==
    \/ Len(r.red_flags) > 0
    \/ Len(r.missing_required) > MISSING_LIMIT
    \/ Len(r.suitability_concerns) > 0
    \/ Len(r.warnings) > 0

\* Lines 106-113: the two verdict flags
FollowUpNeeded(r) ==
    \/ Len(r.red_flags) > 0
    \/ Len(r.missing_required) > MISSING_LIMIT
    \/ Len(r.suitability_concerns) > 0

\* Mutant: the missing-field limit taken as exclusive
IsValid_Exclusive(r) == Len(r.red_flags) = 0 /\ Len(r.missing_required) < MISSING_LIMIT

IsValid(r) == Len(r.red_flags) = 0 /\ Len(r.missing_required) <= MISSING_LIMIT

Verdict(r) == [r EXCEPT !.follow_up_needed = FollowUpNeeded(r), !.is_valid = IsValid(r)]

\* The next statement of validate runs only if the previous one returned.
Then(c, Check(_, _)) == IF c.ok THEN Check(c.data, c.result) ELSE c
Finish(dt, r) == Ret(dt, Verdict(r))

\* Mutant: the AML checker runs before the suitability checker
validate_AmlFirst(dt, ft) ==
    Then(Then(Then(Then(Then(_check_required_fields(dt, ft, ValidationResult),
                             _determine_exemption),
                        _check_aml_flags),
                   _check_suitability),
              _check_concentration),
         Finish)

\* The five sub-checkers in order, then the verdict flags
validate(dt, ft) ==
    Then(Then(Then(Then(Then(_check_required_fields(dt, ft, ValidationResult),
                             _determine_exemption),
                        _check_suitability),
                   _check_aml_flags),
              _check_concentration),
         Finish)

----------------------------------------------------------------------------
(* Input records: what the extractor can hand to validate *)

IntsV(S) == {IntV(x) : x \in S}
FormTypes == {"individual", "corporate", "trade", "other"}

Rec(cn, addr, con, emp, pers, fin, prof, aml, inv, ex) ==
    MkDict([client_name |-> cn, address |-> addr, contact |-> con, employment |-> emp,
            personal |-> pers, financials |-> fin, investment_profile |-> prof,
            aml |-> aml, investment_details |-> inv, exemption_status |-> ex])

\* Adds the top-level fields of the corporate form to a record
WithCorporate(rec) ==
    DictV([k \in DOMAIN rec.d \cup {"corporate_name", "business_number", "authorized_persons"} |->
              CASE k = "corporate_name" -> StrV(SomeText)
                [] k = "business_number" -> StrV(SomeText)
                [] k = "authorized_persons" -> ListV(0)
                [] OTHER -> rec.d[k]])

FullName == MkDict([first |-> StrV(SomeText), last |-> StrV(SomeText)])
FullAddress == MkDict([city |-> StrV(SomeText), province |-> StrV(SomeText)])
FullContact == MkDict([email |-> StrV(SomeText)])
FullEmployment == MkDict([occupation |-> StrV(SomeText)])

Dob(y) == StrV(y \o <<"-", "0", "1", "-", "1", "5">>)
Dob1950 == Dob(<<"1", "9", "5", "0">>)
Dob1960 == Dob(<<"1", "9", "6", "0">>)
Dob1990 == Dob(<<"1", "9", "9", "0">>)
DobBad == StrV(<<"J", "a", "n", " ", "1", "9", "5", "0">>)
PersonalOpts ==
    {Absent, None, EmptyDict} \cup
    {MkDict([dob |-> x]) : x \in {None, Dob1950, Dob1960, Dob1990, DobBad, IntV(1950)}}

Fin(ai, si, nfa, nw, st, bo) ==
    MkDict([annual_income |-> ai, spouse_income |-> si, net_financial_assets |-> nfa,
            net_worth |-> nw, income_stable_2_years |-> st, borrowed_to_invest |-> bo])
AnnualOpts == {Absent, None, StrV(SomeText)} \cup IntsV({74999, 75000, 199999, 200000, 250000})
SpouseOpts == {Absent} \cup IntsV({50001, 100001})
NfaOpts == {Absent, StrV(SomeText)} \cup IntsV({0, 999999, 1000000})
NetWorthOpts == {Absent, StrV(SomeText)} \cup IntsV({399999, 400000, 4999999, 5000000})
StableOpts == {Absent, BoolV(TRUE), BoolV(FALSE)}
FinAll ==
    {Fin(ai, si, nfa, nw, st, Absent) :
        ai \in AnnualOpts, si \in SpouseOpts, nfa \in NfaOpts, nw \in NetWorthOpts, st \in StableOpts}
FinModest == Fin(IntV(80000), Absent, IntV(500000), Absent, Absent, Absent)
FinFew == {Absent, None, FinModest,
           Fin(IntV(250000), Absent, IntV(1000000), Absent, BoolV(TRUE), BoolV(TRUE))}

Prof(rt, rc, th, ob, ry) ==
    MkDict([risk_tolerance |-> rt, risk_capacity |-> rc, time_horizon |-> th,
            investment_objective |-> ob, planned_retirement_year |-> ry])
ProfModerate == Prof(StrV(MODERATE), Absent, StrV(TenPlus), StrV(GROWTH), Absent)
ProfAll ==
    {Prof(rt, rc, th, ob, ry) :
        rt \in {Absent, StrV(HIGH), StrV(LOW)},
        rc \in {Absent, StrV(LOW), StrV(NIL)},
        th \in {Absent, StrV(TenPlus)},
        ob \in {Absent, StrV(GROWTH), StrV(INCOME)},
        ry \in {Absent, IntV(CurrentYear + 2), IntV(CurrentYear + 5), StrV(SomeText)}}
ProfFew == {Absent, None, ProfModerate, Prof(StrV(HIGH), StrV(LOW), Absent, Absent, Absent)}

Aml(pep, pos, hio) == MkDict([is_pep |-> pep, pep_position |-> pos, is_hio |-> hio])
AmlAll ==
    {Absent, None,
     Aml(BoolV(FALSE), Absent, BoolV(FALSE)),
     Aml(BoolV(TRUE), Absent, Absent),
     Aml(BoolV(TRUE), None, Absent),
     Aml(BoolV(TRUE), StrV(SomeText), Absent),
     Aml(Absent, Absent, BoolV(TRUE)),
     Aml(BoolV(TRUE), StrV(SomeText), BoolV(TRUE))}

Inv(amount) == MkDict([issuer |-> StrV(SomeText), amount |-> amount, source_of_funds |-> StrV(SomeText)])
InvAll == {Absent, None} \cup {Inv(a) : a \in {Absent, StrV(SomeText)} \cup IntsV({0, 100000, 100001, 250000, 250001})}
InvFew == {Absent, None, Inv(IntV(100001)), Inv(IntV(250001))}

\* What the extractor put in the exemption-status section
ExOpts ==
    {Absent, None,
     MkDict([is_accredited |-> BoolV(TRUE), is_eligible |-> BoolV(TRUE),
             accreditation_reason |-> StrV(SomeText)])}

NameOpts == {Absent, None, StrV(SomeText), FullName,
             MkDict([first |-> StrV(SomeText)]),
             MkDict([first |-> StrV(<<>>), last |-> StrV(SomeText)])}

\* The record extract returns when the model's output is not JSON (extractor.py 211-215)
ErrorMarker ==
    MkDict([error |-> StrV(<<"Failed to parse extraction">>), raw_response |-> StrV(SomeText),
            parse_error |-> StrV(SomeText)])

\* Families of records: one part of the record varies over all its options
\* while the rest is fixed.
FinancialRecords ==
    {Rec(FullName, FullAddress, FullContact, FullEmployment, MkDict([dob |-> Dob1990]),
         fin, ProfModerate, Absent, Absent, ex) : fin \in FinAll, ex \in ExOpts}
SuitabilityRecords ==
    {Rec(FullName, FullAddress, FullContact, FullEmployment, pers,
         FinModest, prof, Absent, Absent, Absent) : pers \in PersonalOpts, prof \in ProfAll}
VerdictRecords ==
    {Rec(cn, addr, FullContact, FullEmployment, MkDict([dob |-> Dob1950]),
         fin, prof, aml, inv, Absent) :
        cn \in NameOpts, addr \in {Absent, FullAddress}, fin \in FinFew, prof \in ProfFew,
        aml \in AmlAll, inv \in InvFew}
ConcentrationRecords ==
    {Rec(FullName, FullAddress, FullContact, FullEmployment, Absent,
         Fin(IntV(80000), Absent, nfa, Absent, Absent, bo), Absent, Absent, inv, Absent) :
        nfa \in NfaOpts \cup {None}, bo \in {Absent, BoolV(TRUE)}, inv \in InvAll}
\* Records on which a check of every sub-checker fires, one for each tier
OrderRecords ==
    {Rec(FullName, FullAddress, FullContact, FullEmployment, MkDict([dob |-> Dob1950]),
         Fin(ai, Absent, nfa, Absent, Absent, BoolV(TRUE)),
         Prof(StrV(HIGH), StrV(LOW), StrV(TenPlus), StrV(INCOME), IntV(CurrentYear + 2)),
         Aml(BoolV(TRUE), StrV(SomeText), BoolV(TRUE)), Inv(IntV(250001)), Absent) :
        ai \in IntsV({0, 80000}), nfa \in IntsV({500000, 1000000})}
\* A record whose required fields hold false, zero, an empty list and an empty string
FalsyRecord ==
    DictV([client_name |-> BoolV(FALSE), corporate_name |-> StrV(<<>>),
           business_number |-> IntV(0), authorized_persons |-> ListV(0),
           financials |-> DictV([annual_income |-> IntV(0), net_assets |-> BoolV(FALSE)])])
OddRecords == {EmptyDict, ErrorMarker, None, ListV(0), WithCorporate(EmptyDict), FalsyRecord}

\* The (record, form type) pairs validate is called on
Inputs ==
    ((FinancialRecords \cup SuitabilityRecords \cup OrderRecords) \X {"individual"})
        \cup ((VerdictRecords \cup ConcentrationRecords \cup OddRecords
                \cup {WithCorporate(rec) : rec \in ConcentrationRecords}) \X FormTypes)

----------------------------------------------------------------------------
(* Strings of the request handler *)

Space == " "
IsSpace(c) == c \in {" ", "\n", "\t"}

\* str.strip() on a sequence of characters
RECURSIVE LStrip(_)
LStrip(chars) ==
    IF chars # <<>> /\ IsSpace(Head(chars)) THEN LStrip(Tail(chars)) ELSE chars
RECURSIVE RStrip(_)
RStrip(chars) ==
    IF chars # <<>> /\ IsSpace(chars[Len(chars)])
    THEN RStrip(SubSeq(chars, 1, Len(chars) - 1)) ELSE chars
Strip(chars) == RStrip(LStrip(chars))

\* f"{v}" for the values a name can hold
Format(v) ==
    CASE v.t = "str" -> v.s
      [] v.t = "null" -> <<"N", "o", "n", "e">>
      [] v.t = "bool" -> IF v.b THEN <<"T", "r", "u", "e">> ELSE <<"F", "a", "l", "s", "e">>
      [] OTHER -> <<"?">>

\* A transcript is a sequence of runs of characters: [ws |-> the run is
\* whitespace, len |-> its length].
Run(ws, len) == [ws |-> ws, len |-> len]
RECURSIVE TLen(_)
TLen(t) == IF t = <<>> THEN 0 ELSE Head(t).len + TLen(Tail(t))
RECURSIVE TLStrip(_)
TLStrip(t) == IF t # <<>> /\ Head(t).ws THEN TLStrip(Tail(t)) ELSE t
RECURSIVE TRStrip(_)
TRStrip(t) ==
    IF t # <<>> /\ t[Len(t)].ws THEN TRStrip(SubSeq(t, 1, Len(t) - 1)) ELSE t
TStrip(t) == TRStrip(TLStrip(t))

MIN_TRANSCRIPT == 50

\* Mutant: the length is taken without trimming
TooShort_NoStrip(transcript) == TLen(transcript) = 0 \/ TLen(transcript) < MIN_TRANSCRIPT

\* main.py 115: not request.transcript or len(request.transcript.strip()) < 50
TooShort(transcript) == TLen(transcript) = 0 \/ TLen(TStrip(transcript)) < MIN_TRANSCRIPT

----------------------------------------------------------------------------
(* External collaborators *)

\* extractor.extract: the API call raises, or its text is parsed
\* The text of a reply is a sequence of pieces: a markdown fence, the word
\* json, whitespace, a complete JSON document (whose value the reply carries),
\* or any other text.
\* the three backquotes of a markdown fence
FENCE == "fence"
JSONWORD == "json"
WS == " "
DOC == "{}"
JUNK == "x"
ApiError == [kind |-> "api_error", text |-> <<>>, value |-> None]
NotJson == [kind |-> "text", text |-> <<JUNK>>, value |-> None]
Json(v) == [kind |-> "text", text |-> <<DOC>>, value |-> v]

\* str.strip() on a text
RECURSIVE PLStrip(_)
PLStrip(text) == IF text # <<>> /\ Head(text) = WS THEN PLStrip(Tail(text)) ELSE text
RECURSIVE PRStrip(_)
PRStrip(text) ==
    IF text # <<>> /\ text[Len(text)] = WS THEN PRStrip(SubSeq(text, 1, Len(text) - 1)) ELSE text
PStrip(text) == PRStrip(PLStrip(text))

\* text.split(fence)[1] for a text that starts with the fence: what lies
\* between the first fence and the next one (or the end)
RECURSIVE UpToFence(_)
UpToFence(text) ==
    IF text = <<>> \/ Head(text) = FENCE THEN <<>> ELSE <<Head(text)>> \o UpToFence(Tail(text))
AfterFirstFence(text) == UpToFence(Tail(text))

\* The markdown clean-up of both extract and quick_extract
Unfence(text) ==
    IF text # <<>> /\ Head(text) = FENCE
    THEN LET inner == AfterFirstFence(text)
         IN  IF inner # <<>> /\ Head(inner) = JSONWORD THEN Tail(inner) ELSE inner
    ELSE text

\* json.loads succeeds on one document, surrounding whitespace allowed
Loads(text) == PStrip(text) = <<DOC>>

\* Mutant: a parse failure is raised
extract_Raises(reply) ==
    IF reply.kind = "api_error" THEN [ok |-> FALSE, value |-> None]
    ELSE IF Loads(PStrip(Unfence(PStrip(reply.text)))) THEN [ok |-> TRUE, value |-> reply.value]
    ELSE [ok |-> FALSE, value |-> None]

extract(reply) ==
    IF reply.kind = "api_error" THEN [ok |-> FALSE, value |-> None]
    ELSE IF Loads(PStrip(Unfence(PStrip(reply.text)))) THEN [ok |-> TRUE, value |-> reply.value]
    ELSE [ok |-> TRUE, value |-> ErrorMarker]

QuickFallback ==
    MkDict([first_name |-> None, last_name |-> None, missing_fields |-> ListV(1)])

quick_extract(reply) ==
    IF reply.kind = "api_error" THEN [ok |-> FALSE, value |-> None]
    ELSE IF Loads(PStrip(Unfence(PStrip(reply.text)))) THEN [ok |-> TRUE, value |-> reply.value]
    ELSE [ok |-> TRUE, value |-> QuickFallback]

\* pdf_filler.fill: the sections each form's mapping reads with .get
TEMPLATES == {"individual", "corporate", "trade"}
SectionsRead(ft) ==
    CASE ft = "individual" ->
           {"client_name", "address", "contact", "personal", "employment",
            "spouse_employment", "financials", "investment_profile",
            "asset_composition", "aml"}
      [] ft = "corporate" -> {"corporate_info", "address", "financials", "client_name"}
      [] ft = "trade" -> {"client_name", "investment_details", "financials"}
      [] OTHER -> {"client_name"}

\* _fill_pdf 267-273: {FORM}_KYC_{first}_{last}_{timestamp}.pdf, the timestamp
\* being the wall clock in whole seconds
OutputPath(dt, ft, timestamp) ==
    LET client_name == DictGet(dt, "client_name", EmptyDict)
    IN  [form |-> ft,
         first |-> DictGet(client_name, "first", StrV(<<"Unknown">>)),
         last |-> DictGet(client_name, "last", StrV(<<"Client">>)),
         timestamp |-> timestamp]
NoPath == [form |-> "", first |-> None, last |-> None, timestamp |-> 0]

\* _fill_pdf 276-277: open(output_path, "wb") creates the file or replaces it
WriteFile(fs, path, writer) ==
    {f \in fs : f.path # path} \cup {[path |-> path, writer |-> writer]}

fill(dt, ft, template_exists, timestamp) ==
    IF ft \notin TEMPLATES \/ ~template_exists \/ ~IsDict(dt)
    THEN [ok |-> FALSE, path |-> NoPath]
    ELSE IF \E k \in SectionsRead(ft) : ~IsDict(DictGet(dt, k, EmptyDict))
    THEN [ok |-> FALSE, path |-> NoPath]
    ELSE [ok |-> TRUE, path |-> OutputPath(dt, ft, timestamp)]

\* What main.py hands to send_kyc_email as validation_result: the
\* ValidationResult object itself (to_dict is not called).
AsObject(r) == [kind |-> "ValidationResult", fields |-> r]
to_dict(r) == [kind |-> "dict", fields |-> r]
NoReport == [kind |-> "none", fields |-> ValidationResult]
HasGet(x) == x.kind = "dict"

\* The sections _build_email_html reads with .get
EmailSections ==
    {"client_name", "address", "contact", "personal", "employment", "financials",
     "investment_profile", "exemption_status", "confidence_scores"}

\* send_kyc_email: "raise", or the boolean it returns as "true" / "false"
send_kyc_email(extracted_data, validation_result, transport_ok) ==
    IF ~IsDict(extracted_data) THEN "raise"
    ELSE IF ~IsDict(DictGet(extracted_data, "client_name", EmptyDict)) THEN "raise"
    ELSE IF ~HasGet(validation_result) THEN "raise"
    ELSE IF \E k \in EmailSections : ~IsDict(DictGet(extracted_data, k, EmptyDict)) THEN "raise"
    ELSE IF transport_ok THEN "true" ELSE "false"

----------------------------------------------------------------------------
(* The webhook handler and the background run *)

MaxRequests == 2
Requests == 1..MaxRequests
\* The seconds the clock can show
MaxClock == 1

TranscriptRequest(transcript, ft) == [transcript |-> transcript, form_type |-> ft]
NoRequest == TranscriptRequest(<<>>, "")

Transcripts ==
    {<<>>,
     <<Run(TRUE, 3)>>,
     <<Run(TRUE, 1), Run(FALSE, MIN_TRANSCRIPT - 1), Run(TRUE, 1)>>,
     <<Run(TRUE, 1), Run(FALSE, MIN_TRANSCRIPT)>>}
RequestFormTypes == {"individual"}

\* What the model behind quick_extract can answer
QuickReplies ==
    {ApiError,
     Json(MkDict([first_name |-> StrV(SomeText), last_name |-> StrV(SomeText),
                  missing_fields |-> ListV(0)])),
     Json(MkDict([first_name |-> StrV(SomeText), last_name |-> StrV(SomeText),
                  missing_fields |-> None]))}

GoodRecord ==
    Rec(FullName, FullAddress, FullContact, FullEmployment, MkDict([dob |-> Dob1990]),
        Fin(IntV(250000), Absent, Absent, IntV(3000000), BoolV(TRUE), Absent),
        ProfModerate, Aml(BoolV(FALSE), Absent, Absent), Absent,
        MkDict([is_accredited |-> BoolV(FALSE), is_eligible |-> BoolV(TRUE),
                accreditation_reason |-> None]))
NullSectionRecord ==
    Rec(FullName, FullAddress, FullContact, FullEmployment, Absent,
        None, ProfModerate, Aml(BoolV(TRUE), Absent, Absent), Absent, Absent)

\* What the model behind extract can answer
ExtractReplies ==
    {ApiError, NotJson, Json(GoodRecord), Json(NullSectionRecord)}

\* ExtractionResponse(...): pydantic rejects a missing_fields that is no list
ExtractionResponse(client_name, ft, fields_extracted, missing_fields) ==
    [status |-> "processing", client_name |-> client_name, form_type |-> ft,
     fields_extracted |-> fields_extracted, missing_fields |-> missing_fields,
     red_flags |-> ListV(0)]
NoResponse == [status |-> "", client_name |-> None, form_type |-> "",
               fields_extracted |-> 0, missing_fields |-> None, red_flags |-> None]

\* Mutant: the except branch leaves no usable quick_extract behind
QuickResult_Unhandled(reply) ==
    LET q == quick_extract(reply) IN
    IF q.ok /\ IsDict(q.value)
    THEN [client_name |->
              StrV(Strip(Format(DictGet(q.value, "first_name", StrV(<<>>))) \o <<Space>>
                         \o Format(DictGet(q.value, "last_name", StrV(<<>>))))),
          quick_extract |-> q.value]
    ELSE [client_name |-> StrV(<<"Unknown">>), quick_extract |-> MkDict([missing_fields |-> None])]

\* main.py 121-127: the quick extraction and its except branch
QuickResult(reply) ==
    LET q == quick_extract(reply) IN
    IF q.ok /\ IsDict(q.value)
    THEN [client_name |->
              StrV(Strip(Format(DictGet(q.value, "first_name", StrV(<<>>))) \o <<Space>>
                         \o Format(DictGet(q.value, "last_name", StrV(<<>>))))),
          quick_extract |-> q.value]
    ELSE [client_name |-> StrV(<<"Unknown">>), quick_extract |-> EmptyDict]

\* main.py 139-147
BuildResponse(qr, ft) ==
    ExtractionResponse(
        IF Truthy(qr.client_name) THEN qr.client_name ELSE None,
        ft,
        Cardinality({k \in DOMAIN qr.quick_extract.d : Truthy(qr.quick_extract.d[k])}),
        DictGet(qr.quick_extract, "missing_fields", ListV(0)))

ResponseValid(resp) == resp.missing_fields.t = "list"

\* _get_nested has not been called
NotFetched == [called |-> FALSE, value |-> None]
NestedIdle ==
    /\ field_path = <<>>
    /\ nested = NotFetched

\* validate has been called at most once
NoSecondCall == [called |-> FALSE, ok |-> FALSE, result |-> ValidationResult]
AgainIdle ==
    /\ before = None
    /\ again = NoSecondCall

NoOutcome == [ok |-> FALSE, value |-> StrV(<<"not called">>)]
ParseIdle ==
    /\ xreply = ApiError
    /\ xfull = NoOutcome
    /\ xquick = NoOutcome

NoSyncResponse == [status |-> "", extracted_data |-> None, validation |-> NoReport]
SyncIdle ==
    /\ sreq = NoRequest
    /\ sstate = "none"
    /\ sdata = None
    /\ sresp = NoSyncResponse

PipelineIdle ==
    /\ request = [i \in Requests |-> NoRequest]
    /\ hstate = [i \in Requests |-> "none"]
    /\ response = [i \in Requests |-> NoResponse]
    /\ queued = [i \in Requests |-> 0]
    /\ quick = [i \in Requests |-> NoOutcome]
    /\ pc = [i \in Requests |-> "none"]
    /\ calls = [i \in Requests |-> <<>>]
    /\ raised = [i \in Requests |-> "none"]
    /\ rdata = [i \in Requests |-> None]
    /\ rreport = [i \in Requests |-> NoReport]
    /\ pdf_path = [i \in Requests |-> NoPath]
    /\ sent = [i \in Requests |-> "none"]
    /\ clock = 0
    /\ files = {}

Init ==
    /\ PipelineIdle
    /\ SyncIdle
    /\ ParseIdle
    /\ data = None
    /\ form_type = "individual"
    /\ vstate = "idle"
    /\ result = ValidationResult
    /\ AgainIdle
    /\ NestedIdle

\* receive_transcript up to `await extractor.quick_extract`: the length check
ReceiveTranscript(i) ==
    /\ hstate[i] = "none"
    /\ \E t \in Transcripts, ft \in RequestFormTypes :
        /\ request' = [request EXCEPT ![i] = TranscriptRequest(t, ft)]
        /\ hstate' = [hstate EXCEPT ![i] = IF TooShort(t) THEN "rejected" ELSE "quick"]
    /\ UNCHANGED <<response, queued, quick, vvars, rvars, ovars, svars, xvars>>

\* How many tasks lines 130-137 add to background_tasks
TasksAdded == 1

\* receive_transcript from the return of quick_extract to its own return:
\* the name, add_task, and the response, for a reply drawn from `replies`
QuickExtractOn(i, replies) ==
    /\ hstate[i] = "quick"
    /\ \E reply \in replies :
        LET qr == QuickResult(reply)
            resp == BuildResponse(qr, request[i].form_type)
        IN  /\ quick' = [quick EXCEPT ![i] = quick_extract(reply)]
            /\ queued' = [queued EXCEPT ![i] = @ + TasksAdded]
            /\ IF ResponseValid(resp)
               THEN /\ response' = [response EXCEPT ![i] = resp]
                    /\ hstate' = [hstate EXCEPT ![i] = "responded"]
               ELSE /\ hstate' = [hstate EXCEPT ![i] = "error"]
                    /\ UNCHANGED response
    /\ UNCHANGED <<request, vvars, rvars, ovars, svars, xvars>>

QuickExtractDone(i) == QuickExtractOn(i, QuickReplies)

\* Mutant: the run is started as soon as the request has passed the length check
CanStart_Early(i) == hstate[i] \in {"quick", "responded"} /\ pc[i] = "none"

\* The framework runs the queued task once the response has been returned
CanStart(i) == hstate[i] = "responded" /\ queued[i] > 0 /\ pc[i] = "none"

\* process_kyc_background up to `await extractor.extract`
StartRun(i) ==
    /\ CanStart(i)
    /\ pc' = [pc EXCEPT ![i] = "extract"]
    /\ calls' = [calls EXCEPT ![i] = Append(@, "extract")]
    /\ UNCHANGED <<vvars, hvars, raised, rdata, rreport, pdf_path, sent, ovars, svars, xvars>>

\* Mutant: the exception is swallowed and the next stage runs
AfterStage_Continue(raises, next) == next

\* The try/except of process_kyc_background: where a stage that raised
\* (`raises`) or returned leads
AfterStage(raises, next) == IF raises THEN "failed" ELSE next
Caught(i, stage, raises) == IF raises THEN [raised EXCEPT ![i] = stage] ELSE raised

\* Step 1 returns or raises
ExtractDone(i) ==
    /\ pc[i] = "extract"
    /\ \E reply \in ExtractReplies :
        LET out == extract(reply) IN
        /\ pc' = [pc EXCEPT ![i] = AfterStage(~out.ok, "validate")]
        /\ raised' = Caught(i, "extract", ~out.ok)
        /\ rdata' = [rdata EXCEPT ![i] = out.value]
    /\ UNCHANGED <<vvars, hvars, calls, rreport, pdf_path, sent, ovars, svars, xvars>>

\* Mutant: validate works on a copy, extracted_data keeps the extractor's values
ValidateStage_Copy(i) ==
    /\ pc[i] = "validate"
    /\ LET out == validate(rdata[i], request[i].form_type) IN
        /\ pc' = [pc EXCEPT ![i] = AfterStage(~out.ok, "generate")]
        /\ raised' = Caught(i, "validate", ~out.ok)
        /\ rreport' = [rreport EXCEPT ![i] = IF out.ok THEN AsObject(out.result) ELSE @]
    /\ calls' = [calls EXCEPT ![i] = Append(@, "validate")]
    /\ UNCHANGED <<vvars, hvars, rdata, pdf_path, sent, ovars, svars, xvars>>

\* Step 2: validator.validate(extracted_data, form_type)
ValidateStage(i) ==
    /\ pc[i] = "validate"
    /\ LET out == validate(rdata[i], request[i].form_type) IN
        /\ pc' = [pc EXCEPT ![i] = AfterStage(~out.ok, "generate")]
        /\ raised' = Caught(i, "validate", ~out.ok)
        /\ rdata' = [rdata EXCEPT ![i] = out.data]
        /\ rreport' = [rreport EXCEPT ![i] = IF out.ok THEN AsObject(out.result) ELSE @]
    /\ calls' = [calls EXCEPT ![i] = Append(@, "validate")]
    /\ UNCHANGED <<vvars, hvars, pdf_path, sent, ovars, svars, xvars>>

\* Step 3: pdf_filler.fill(...)
GenerateStage(i) ==
    /\ pc[i] = "generate"
    /\ \E template_exists \in BOOLEAN, now \in clock..MaxClock :
        LET out == fill(rdata[i], request[i].form_type, template_exists, now) IN
        /\ pc' = [pc EXCEPT ![i] = AfterStage(~out.ok, "notify")]
        /\ raised' = Caught(i, "generate", ~out.ok)
        /\ pdf_path' = [pdf_path EXCEPT ![i] = out.path]
        /\ clock' = IF out.ok THEN now ELSE clock
        /\ files' = IF out.ok THEN WriteFile(files, out.path, i) ELSE files
    /\ calls' = [calls EXCEPT ![i] = Append(@, "generate")]
    /\ UNCHANGED <<vvars, hvars, rdata, rreport, sent, svars, xvars>>

\* Step 4: await send_kyc_email(...), then the completion log line
NotifyStage(i) ==
    /\ pc[i] = "notify"
    /\ \E transport_ok \in BOOLEAN :
        LET out == send_kyc_email(rdata[i], rreport[i], transport_ok) IN
        /\ pc' = [pc EXCEPT ![i] = AfterStage(out = "raise", "completed")]
        /\ raised' = Caught(i, "notify", out = "raise")
        /\ sent' = [sent EXCEPT ![i] = out]
    /\ calls' = [calls EXCEPT ![i] = Append(@, "notify")]
    /\ UNCHANGED <<vvars, hvars, rdata, rreport, pdf_path, ovars, svars, xvars>>

Next ==
    \E i \in Requests :
        \/ ReceiveTranscript(i)
        \/ QuickExtractDone(i)
        \/ StartRun(i)
        \/ ExtractDone(i)
        \/ ValidateStage(i)
        \/ GenerateStage(i)
        \/ NotifyStage(i)

Spec == Init /\ [][Next]_vars

----------------------------------------------------------------------------
(* The webhook handler alone, on every shape of quick-extract reply *)

\* What the model behind quick_extract can say about the name: each of the
\* two names stated, empty, null or left out; no JSON at all; JSON that is
\* no object; or the call fails
StatedOpts == {Absent, None, StrV(<<>>), StrV(SomeText)}
NameReplies ==
    {ApiError, NotJson, Json(ListV(0))} \cup
    {Json(MkDict([first_name |-> f, last_name |-> l, missing_fields |-> ListV(0)])) :
        f \in StatedOpts, l \in StatedOpts}

QuickExtractNames(i) == QuickExtractOn(i, NameReplies)

NextWebhook ==
    \E i \in Requests :
        \/ ReceiveTranscript(i)
        \/ QuickExtractNames(i)

SpecWebhook == Init /\ [][NextWebhook]_vars

----------------------------------------------------------------------------
(* The synchronous endpoint: extract_sync *)

\* extract_sync up to `await extractor.extract`: the body starts with the
\* extraction, whatever the transcript is
SyncReceive ==
    /\ sstate = "none"
    /\ \E t \in Transcripts, ft \in FormTypes :
        sreq' = TranscriptRequest(t, ft)
    /\ sstate' = "extract"
    /\ UNCHANGED <<sdata, sresp, vvars, hvars, rvars, ovars, xvars>>

\* Step 1 returns or raises (an exception leaves the handler: HTTP 500)
SyncExtractDone ==
    /\ sstate = "extract"
    /\ \E reply \in ExtractReplies :
        LET out == extract(reply) IN
        /\ sstate' = IF out.ok THEN "validate" ELSE "error"
        /\ sdata' = out.value
    /\ UNCHANGED <<sreq, sresp, vvars, hvars, rvars, ovars, xvars>>

\* Mutant: the body carries the record as the extractor returned it
SyncValidate_Copy ==
    /\ sstate = "validate"
    /\ LET out == validate(sdata, sreq.form_type) IN
        /\ sstate' = IF out.ok THEN "responded" ELSE "error"
        /\ sresp' = IF out.ok
                    THEN [status |-> "success", extracted_data |-> sdata,
                          validation |-> AsObject(out.result)]
                    ELSE sresp
    /\ UNCHANGED <<sreq, sdata, vvars, hvars, rvars, ovars, xvars>>

\* Step 2 and the returned body
SyncValidate ==
    /\ sstate = "validate"
    /\ LET out == validate(sdata, sreq.form_type) IN
        /\ sdata' = out.data
        /\ sstate' = IF out.ok THEN "responded" ELSE "error"
        /\ sresp' = IF out.ok
                    THEN [status |-> "success", extracted_data |-> out.data,
                          validation |-> AsObject(out.result)]
                    ELSE sresp
    /\ UNCHANGED <<sreq, vvars, hvars, rvars, ovars, xvars>>

NextSync == SyncReceive \/ SyncExtractDone \/ SyncValidate

SpecSync == Init /\ [][NextSync]_vars

----------------------------------------------------------------------------
(* The extractor on the replies of the model API *)

MaxTextLen == 4
Pieces == {FENCE, JSONWORD, WS, DOC, JUNK}
Texts == UNION {[1..n -> Pieces] : n \in 0..MaxTextLen}
\* The value the JSON document of a reply stands for
SampleDocument == MkDict([first_name |-> StrV(SomeText), last_name |-> None])
Replies == {ApiError} \cup {[kind |-> "text", text |-> t, value |-> SampleDocument] : t \in Texts}

InitX ==
    /\ xreply \in Replies
    /\ xfull = NoOutcome
    /\ xquick = NoOutcome
    /\ PipelineIdle
    /\ SyncIdle
    /\ data = None /\ form_type = "individual" /\ vstate = "idle" /\ result = ValidationResult
    /\ AgainIdle
    /\ NestedIdle

\* extract from the API reply to its return
ExtractReply ==
    /\ xfull = NoOutcome
    /\ xfull' = extract(xreply)
    /\ UNCHANGED <<xreply, xquick, vvars, hvars, rvars, ovars, svars>>

\* quick_extract from the API reply to its return
QuickExtractReply ==
    /\ xquick = NoOutcome
    /\ xquick' = quick_extract(xreply)
    /\ UNCHANGED <<xreply, xfull, vvars, hvars, rvars, ovars, svars>>

NextX == ExtractReply \/ QuickExtractReply

SpecX == InitX /\ [][NextX]_vars

----------------------------------------------------------------------------
(* The validator as a state machine: one call of validate on one record *)

InitV ==
    /\ \E input \in Inputs : data = input[1] /\ form_type = input[2]
    /\ vstate = "ready"
    /\ result = ValidationResult
    /\ AgainIdle
    /\ NestedIdle
    /\ PipelineIdle
    /\ SyncIdle
    /\ ParseIdle

Validate ==
    /\ vstate = "ready"
    /\ LET out == validate(data, form_type) IN
        /\ data' = out.data
        /\ result' = out.result
        /\ vstate' = IF out.ok THEN "returned" ELSE "raised"
    /\ before' = data
    /\ UNCHANGED <<form_type, again, field_path, nested, hvars, rvars, ovars, svars, xvars>>

\* A second call of validate on the record the first call was given, which
\* now holds what the first call wrote into it
ValidateAgain ==
    /\ vstate \in {"returned", "raised"}
    /\ ~again.called
    /\ LET out == validate(data, form_type) IN
        /\ data' = out.data
        /\ again' = [called |-> TRUE, ok |-> out.ok, result |-> out.result]
    /\ UNCHANGED <<form_type, vstate, result, before, field_path, nested, hvars, rvars, ovars, svars, xvars>>

NextV == Validate \/ ValidateAgain

SpecV == InitV /\ [][NextV]_vars

----------------------------------------------------------------------------
(* The field accessor: one call of _get_nested on one record and one path *)

\* Values a key can hold, and the records built from them; "" is a key too
Leaves == {None, IntV(0), StrV(<<>>), StrV(SomeText), ListV(0)}
Inner ==
    {EmptyDict, MkDict([b |-> None]), MkDict([b |-> IntV(7)]), MkDict([a |-> IntV(1)]),
     MkDict([b |-> MkDict([a |-> StrV(SomeText)])])}
NestedRecords ==
    {None, IntV(0), StrV(SomeText), ListV(0), EmptyDict,
     DictV("" :> IntV(3)), DictV("" :> DictV("" :> IntV(4))), DictV("a" :> DictV("" :> None))}
        \cup {MkDict([a |-> x, b |-> y]) : x \in Leaves \cup Inner \cup {Absent},
                                          y \in {Absent, None, IntV(2)}}

\* Dotted paths of up to three segments, an empty segment included
PathKeys == {"a", "b"}
Paths ==
    {<<>>, <<Dot>>}
        \cup {<<k>> : k \in PathKeys}
        \cup {<<k, Dot>> : k \in PathKeys}
        \cup {<<Dot, k>> : k \in PathKeys}
        \cup {<<k, Dot, l>> : k \in PathKeys, l \in PathKeys}
        \cup {<<k, Dot, l, Dot, m>> : k \in PathKeys, l \in PathKeys, m \in PathKeys}

InitNested ==
    /\ data \in NestedRecords
    /\ field_path \in Paths
    /\ nested = NotFetched
    /\ form_type = "individual" /\ vstate = "idle" /\ result = ValidationResult
    /\ AgainIdle
    /\ PipelineIdle
    /\ SyncIdle
    /\ ParseIdle

GetNested ==
    /\ ~nested.called
    /\ nested' = [called |-> TRUE, value |-> _get_nested(data, field_path)]
    /\ UNCHANGED <<data, form_type, vstate, result, before, again, field_path,
                   hvars, rvars, ovars, svars, xvars>>

NextNested == GetNested

SpecNested == InitNested /\ [][NextNested]_vars

----------------------------------------------------------------------------
(* Properties of validate, checked under SpecV *)

Returned == vstate = "returned"
NoItems(list) == Len(list) = 0

\* C1: the report returned by validate has is_valid = FALSE exactly when it has
\* a red flag or more than three missing required fields, whatever its
\* warnings, suitability concerns and tier are.
C1_IsValidRule ==
    Returned =>
        (result.is_valid <=> (NoItems(result.red_flags) /\ Len(result.missing_required) <= 3))

\* C1 witness: a valid report with exactly three missing fields, no red flag,
\* and both warnings and suitability concerns present.
C1_Witness ==
    /\ Returned
    /\ result.is_valid
    /\ Len(result.missing_required) = 3
    /\ ~NoItems(result.warnings)
    /\ ~NoItems(result.suitability_concerns)

\* C2: follow_up_needed is TRUE exactly when the report has a red flag, more
\* than three missing required fields or a suitability concern; so an invalid
\* report always needs follow-up, and warnings alone never do.
C2_FollowUpRule ==
    Returned =>
        /\ result.follow_up_needed <=>
              (~NoItems(result.red_flags) \/ Len(result.missing_required) > 3
                  \/ ~NoItems(result.suitability_concerns))
        /\ ~result.is_valid => result.follow_up_needed

\* C2 witness: a report with warnings only, and no follow-up.
C2_Witness ==
    /\ Returned
    /\ Len(result.warnings) >= 2
    /\ NoItems(result.red_flags)
    /\ NoItems(result.suitability_concerns)
    /\ ~result.follow_up_needed

\* C3: validate is total: whatever record it is given, it returns a report and
\* never raises.
C3_ValidateTotal == vstate # "raised"

\* The financial figures of the record as the classifier's rules see them:
\* absent or null is zero, the stability flag absent is false.
FinancialsOf == IF IsDict(data) THEN DictGet(data, "financials", EmptyDict) ELSE None
FigureOk(key) ==
    LET v == DictGet(FinancialsOf, key, None) IN v.t \in {"null", "int", "bool"}
Figure(key) ==
    LET v == DictGet(FinancialsOf, key, None) IN IF v.t = "null" THEN 0 ELSE Num(v)
FiguresOk ==
    /\ IsDict(FinancialsOf)
    /\ \A key \in {"annual_income", "spouse_income", "net_financial_assets", "net_worth"} :
          FigureOk(key)
Stable == Truthy(DictGet(FinancialsOf, "income_stable_2_years", None))

SingleIncomeRule == Figure("annual_income") >= 200000 /\ Stable
JointIncomeRule == Figure("annual_income") + Figure("spouse_income") >= 300000 /\ Stable
NfaRule == Figure("net_financial_assets") >= 1000000
NetWorthRule == Figure("net_worth") >= 5000000
SomeAccreditedRule == SingleIncomeRule \/ JointIncomeRule \/ NfaRule \/ NetWorthRule
SomeEligibleThreshold ==
    \/ Figure("annual_income") >= 75000
    \/ Figure("annual_income") + Figure("spouse_income") >= 125000
    \/ Figure("net_worth") >= 400000

\* C6: the tier is ACCREDITED whenever some accredited rule is satisfied (even
\* if an eligible threshold is met too), ELIGIBLE whenever none is but some
\* eligible threshold is met, and NON_ELIGIBLE otherwise.
C6_TierOrdering ==
    (Returned /\ FiguresOk) =>
        result.exemption_status =
            IF SomeAccreditedRule THEN "ACCREDITED"
            ELSE IF SomeEligibleThreshold THEN "ELIGIBLE"
            ELSE "NON_ELIGIBLE"

\* C6 witness: net financial assets of exactly 1,000,000 with an income that
\* only meets an eligible threshold: ACCREDITED.
C6_Witness ==
    /\ Returned /\ FiguresOk
    /\ Figure("net_financial_assets") = 1000000
    /\ ~SingleIncomeRule /\ ~JointIncomeRule /\ ~NetWorthRule
    /\ SomeEligibleThreshold
    /\ result.exemption_status = "ACCREDITED"

ReasonStored ==
    DictGet(DictGet(data, "exemption_status", EmptyDict), "accreditation_reason", None)
ReasonIs(text) == ReasonStored.t = "str" /\ ReasonStored.s = <<text>>

\* C7: the rules are tried in the order single income, joint income, net
\* financial assets, net worth, and the first that matches supplies the
\* reason; the thresholds are inclusive and the income rules need the
\* stability flag: 200,000 with stability is ACCREDITED, 199,999 with
\* stability, or 250,000 without it, with nothing else qualifying is ELIGIBLE.
C7_RulePrecedence ==
    (Returned /\ FiguresOk) =>
        /\ IF SingleIncomeRule THEN ReasonIs("Annual income >= $200,000 for 2 years")
           ELSE IF JointIncomeRule THEN ReasonIs("Joint income >= $300,000 for 2 years")
           ELSE IF NfaRule THEN ReasonIs("Net financial assets >= $1,000,000")
           ELSE IF NetWorthRule THEN ReasonIs("Net assets >= $5,000,000")
           ELSE ReasonStored.t = "null"
        /\ (Figure("annual_income") = 200000 /\ Stable) => result.exemption_status = "ACCREDITED"
        /\ (Figure("annual_income") = 199999 /\ Stable
               /\ ~JointIncomeRule /\ ~NfaRule /\ ~NetWorthRule)
              => result.exemption_status = "ELIGIBLE"
        /\ (Figure("annual_income") = 250000 /\ ~Stable /\ ~NfaRule /\ ~NetWorthRule)
              => result.exemption_status = "ELIGIBLE"

\* C7 witness: the joint-income rule and the NFA rule both match, the
\* single-income rule does not; the reason is the joint-income one.
C7_Witness ==
    /\ Returned /\ FiguresOk
    /\ ~SingleIncomeRule /\ JointIncomeRule /\ NfaRule
    /\ ReasonIs("Joint income >= $300,000 for 2 years")

PepFlagTrue ==
    /\ IsDict(data)
    /\ IsDict(DictGet(data, "aml", EmptyDict))
    /\ DictGet(DictGet(data, "aml", EmptyDict), "is_pep", None) = BoolV(TRUE)

\* C8: for every record whose PEP flag is true, validate produces a non-empty
\* red-flag list, is_valid = FALSE and follow_up_needed = TRUE.
C8_PepAlwaysFlagged ==
    (PepFlagTrue /\ vstate # "ready") =>
        /\ Returned
        /\ ~NoItems(result.red_flags)
        /\ ~result.is_valid
        /\ result.follow_up_needed

\* What does hold of C8: whenever validate returns on such a record.
PepFlaggedWhenReturned ==
    (PepFlagTrue /\ Returned) =>
        ~NoItems(result.red_flags) /\ ~result.is_valid /\ result.follow_up_needed

HasMsg(list, id) == \E k \in 1..Len(list) : list[k].id = id
ConcentrationWarned == HasMsg(result.warnings, "concentration_over_10")
ConcentrationConcern == HasMsg(result.suitability_concerns, "concentration_over_25")

\* The two amounts of the record as stored: the value under the key, or null
NfaFigure == DictGet(FinancialsOf, "net_financial_assets", None)
InvestmentOf == IF IsDict(data) THEN DictGet(data, "investment_details", EmptyDict) ELSE None
AmountFigure == IF IsDict(InvestmentOf) THEN DictGet(InvestmentOf, "amount", None) ELSE None
Positive(v) == v.t = "int" /\ v.n > 0
NfaNotPositive == NfaFigure.t = "null" \/ (NfaFigure.t = "int" /\ NfaFigure.n <= 0)

\* C14: the concentration checker emits nothing unless net financial assets and
\* the investment amount are both strictly positive; with zero, absent or null
\* net financial assets and a positive amount it adds nothing and does not raise.
C14_NoSignalUnlessPositive ==
    /\ (Returned /\ ~(Positive(NfaFigure) /\ Positive(AmountFigure)))
          => (~ConcentrationWarned /\ ~ConcentrationConcern)
    /\ (vstate = "ready" /\ IsDict(FinancialsOf) /\ NfaNotPositive /\ Positive(AmountFigure))
          => _check_concentration(data, ValidationResult) = Ret(data, ValidationResult)

\* C14 witness: validate returned on a record with net financial assets of zero
\* and a positive investment amount, and the report has no concentration signal.
C14_Witness ==
    /\ Returned
    /\ NfaFigure = IntV(0) /\ Positive(AmountFigure)
    /\ ~ConcentrationWarned /\ ~ConcentrationConcern

\* C15: with both amounts positive the warning is present exactly when the
\* investment is strictly more than 10% of net financial assets and the concern
\* exactly when it is strictly more than 25%; the concern never comes without
\* the warning.
C15_ConcentrationThresholds ==
    Returned =>
        /\ (Positive(NfaFigure) /\ Positive(AmountFigure)) =>
              /\ ConcentrationWarned <=> (AmountFigure.n * 10 > NfaFigure.n)
              /\ ConcentrationConcern <=> (AmountFigure.n * 4 > NfaFigure.n)
        /\ ConcentrationConcern => ConcentrationWarned

\* C15 witness: an investment of exactly 10% of net financial assets, no warning.
C15_Witness ==
    /\ Returned
    /\ Positive(NfaFigure) /\ Positive(AmountFigure)
    /\ AmountFigure.n * 10 = NfaFigure.n
    /\ ~ConcentrationWarned

\* The value at a required path of one or two keys, read key by key
KeysOf(path) == SelectSeq(path, LAMBDA tok : tok # Dot)
FieldAt(path) ==
    LET keys == KeysOf(path)
        top == IF IsDict(data) THEN DictGet(data, keys[1], None) ELSE None
    IN  IF Len(keys) = 1 THEN top
        ELSE IF IsDict(top) THEN DictGet(top, keys[2], None) ELSE None
NotProvided(v) == v = None \/ v = StrV(<<>>)
ExpectedMissing ==
    IF form_type \in {"individual", "corporate", "trade"}
    THEN SelectSeq(REQUIRED_FIELDS(form_type), LAMBDA path : NotProvided(FieldAt(path)))
    ELSE <<>>

\* C16: the missing-required list is exactly the required paths of the form, in
\* their declared order, whose value is absent, null or the empty string; zero,
\* false and an empty list are present; an unknown form type gives an empty list.
C16_MissingRequired ==
    /\ vstate = "ready" =>
          _check_required_fields(data, form_type, ValidationResult)
              = Ret(data, [ValidationResult EXCEPT !.missing_required = ExpectedMissing])
    /\ Returned => result.missing_required = ExpectedMissing

\* C16 witness: the corporate form on a record holding an empty string, a zero,
\* an empty list and a false: only the empty string is missing.
C16_Witness ==
    /\ Returned /\ form_type = "corporate"
    /\ FieldAt(<<"business_number">>) = IntV(0)
    /\ FieldAt(<<"authorized_persons">>) = ListV(0)
    /\ FieldAt(<<"financials", Dot, "net_assets">>) = BoolV(FALSE)
    /\ result.missing_required = <<(<<"corporate_name">>)>>

ExemptionSection == IF IsDict(data) THEN DictGet(data, "exemption_status", EmptyDict) ELSE None
SectionFlag(key) == IF IsDict(ExemptionSection) THEN DictGet(ExemptionSection, key, None) ELSE None
FlagsAgree(section_accredited, section_eligible, section_reason, tier) ==
    /\ section_accredited = BoolV(tier = "ACCREDITED")
    /\ section_eligible = BoolV(tier = "ELIGIBLE")
    /\ (section_reason # None) <=> (tier = "ACCREDITED")

\* C17: once the classifier has decided the tier, the exemption-status section
\* of the record holds is_accredited, is_eligible and accreditation_reason in
\* agreement with it, whatever the extractor had put in that section.
C17_WriteBack ==
    (vstate # "ready" /\ result.exemption_status # "UNKNOWN") =>
        FlagsAgree(SectionFlag("is_accredited"), SectionFlag("is_eligible"),
                   SectionFlag("accreditation_reason"), result.exemption_status)

\* What does hold of C17: whenever validate returns.
WriteBackWhenReturned ==
    Returned =>
        FlagsAgree(SectionFlag("is_accredited"), SectionFlag("is_eligible"),
                   SectionFlag("accreditation_reason"), result.exemption_status)

AmlOf == IF IsDict(data) THEN DictGet(data, "aml", EmptyDict) ELSE None
StatedPosition == DictGet(AmlOf, "pep_position", None)

\* C19: when the PEP flag is true the red flag names the stated position, and
\* says "position unknown" when the position key is missing or null.
C19_PepPosition ==
    (Returned /\ PepFlagTrue) =>
        /\ result.red_flags # <<>>
        /\ result.red_flags[1] =
              MsgV("pep", IF StatedPosition = None THEN StrV(<<"position unknown">>)
                          ELSE StatedPosition)

\* What does hold of C19: the position key is missing, or holds a string.
PepPositionUnlessNull ==
    (Returned /\ PepFlagTrue /\ ("pep_position" \notin DOMAIN AmlOf.d \/ StatedPosition # None)) =>
        result.red_flags[1] =
            MsgV("pep", IF StatedPosition = None THEN StrV(<<"position unknown">>)
                        ELSE StatedPosition)

----------------------------------------------------------------------------
(* Properties of the pipeline, checked under Spec *)

Stages == <<"extract", "validate", "generate", "notify">>
IsPrefix(a, c) == Len(a) <= Len(c) /\ \A k \in 1..Len(a) : a[k] = c[k]
Ended(i) == pc[i] \in {"completed", "failed"}

\* C4: the stages of a run start in the order extract, validate, generate,
\* notify, each at most once and only after the previous one returned; when a
\* stage raises the run is 'failed' and no later stage has been started.
C4_StageOrder ==
    \A i \in Requests :
        /\ IsPrefix(calls[i], Stages)
        /\ pc[i] \in {"none", "extract", "validate", "generate", "notify", "completed", "failed"}
        /\ pc[i] = "extract" => (calls[i] = <<"extract">> /\ raised[i] = "none")
        /\ \A k \in 2..4 :
              pc[i] = Stages[k] => (calls[i] = SubSeq(Stages, 1, k - 1) /\ raised[i] = "none")
        /\ pc[i] = "completed" => (calls[i] = Stages /\ raised[i] = "none")
        /\ raised[i] # "none"
              => (pc[i] = "failed" /\ calls[i] # <<>> /\ calls[i][Len(calls[i])] = raised[i])

\* C4 witness: validate raised; the run is failed after extract and validate only.
C4_Witness ==
    \E i \in Requests :
        raised[i] = "validate" /\ pc[i] = "failed" /\ calls[i] = <<"extract", "validate">>

\* C5: when extract, validate and generate all succeeded the notifier is
\* invoked and the run ends 'completed'; 'failed' is reached only through an
\* exception during extract, validate or generate.
C5_CompletedAfterGenerate ==
    \A i \in Requests :
        /\ (Ended(i) /\ Len(calls[i]) >= 3 /\ raised[i] \notin {"extract", "validate", "generate"})
              => (pc[i] = "completed" /\ calls[i] = Stages)
        /\ pc[i] = "failed" => raised[i] \in {"extract", "validate", "generate"}

\* C9: notify returns a boolean and never raises to the pipeline.
C9_NotifyNeverRaises ==
    \A i \in Requests :
        Len(calls[i]) = 4 => (sent[i] \in {"true", "false"} /\ raised[i] # "notify")

\* C10: a background stage runs only for a request whose acknowledgment with
\* status 'processing' has already been returned (hence after the quick
\* extract), and exactly one background run is queued for each such request.
C10_AckBeforeRun ==
    \A i \in Requests :
        /\ pc[i] # "none" => (hstate[i] = "responded" /\ response[i].status = "processing")
        /\ hstate[i] = "responded" => (response[i].status = "processing" /\ queued[i] = 1)
        /\ hstate[i] \in {"none", "quick", "rejected"} => queued[i] = 0

\* C10 witness: one request's run has started after its acknowledgment while
\* another request is still waiting for its quick extract.
C10_Witness ==
    \E i, j \in Requests :
        /\ pc[i] = "extract" /\ hstate[i] = "responded" /\ queued[i] = 1
        /\ hstate[j] = "quick" /\ pc[j] = "none"

\* Length of a transcript after trimming: its runs without a leading and a
\* trailing whitespace run
RECURSIVE RunsLen(_)
RunsLen(t) == IF t = <<>> THEN 0 ELSE t[1].len + RunsLen(Tail(t))
WithoutLeading(t) == IF t # <<>> /\ t[1].ws THEN Tail(t) ELSE t
WithoutTrailing(t) == IF t # <<>> /\ t[Len(t)].ws THEN SubSeq(t, 1, Len(t) - 1) ELSE t
TrimmedLen(t) == RunsLen(WithoutTrailing(WithoutLeading(t)))

\* C11: a webhook request whose transcript is empty, whitespace only or shorter
\* than 50 characters after trimming is rejected: quick extract is not called,
\* no response body is built, no background run is queued or started.
C11_ShortRejected ==
    \A i \in Requests :
        (hstate[i] # "none" /\ TrimmedLen(request[i].transcript) < 50) =>
            /\ hstate[i] = "rejected"
            /\ response[i] = NoResponse
            /\ queued[i] = 0
            /\ pc[i] = "none" /\ calls[i] = <<>>

\* C11 witness: a transcript of more than 50 characters, fewer than 50 of them
\* after trimming, has been rejected.
C11_Witness ==
    \E i \in Requests :
        /\ hstate[i] = "rejected"
        /\ RunsLen(request[i].transcript) > 50
        /\ TrimmedLen(request[i].transcript) = 49

\* C12: the synchronous endpoint rejects a request whose transcript is empty,
\* whitespace only or under 50 characters before Extract or any stage runs.
C12_SyncShortRejected ==
    (sstate # "none" /\ TrimmedLen(sreq.transcript) < 50) => sstate = "rejected"

RunFlag(i, key) ==
    IF IsDict(rdata[i])
    THEN DictGet(DictGet(rdata[i], "exemption_status", EmptyDict), key, None)
    ELSE None

\* C18: when Generate Document and Notify read the record of a run, its
\* exemption-status flags agree with the tier in the report of that run.
C18_DownstreamSeesWriteBack ==
    \A i \in Requests :
        (pc[i] \in {"generate", "notify", "completed"} \/ Len(calls[i]) >= 3) =>
            /\ rreport[i].kind = "ValidationResult"
            /\ FlagsAgree(RunFlag(i, "is_accredited"), RunFlag(i, "is_eligible"),
                          RunFlag(i, "accreditation_reason"),
                          rreport[i].fields.exemption_status)

\* C18 witness: the notifier has been handed a record whose flags say
\* accredited, for an extraction that said eligible and not accredited.
C18_Witness ==
    \E i \in Requests :
        /\ Len(calls[i]) = 4
        /\ DictGet(GoodRecord, "exemption_status", EmptyDict).d.is_accredited = BoolV(FALSE)
        /\ RunFlag(i, "is_accredited") = BoolV(TRUE)
        /\ RunFlag(i, "is_eligible") = BoolV(FALSE)
        /\ rreport[i].fields.exemption_status = "ACCREDITED"

Generated(i) == pdf_path[i] # NoPath

\* C13: concurrent runs share no mutable state: nothing a run wrote, the
\* output file of its generated document included, is overwritten by another.
C13_RunsIsolated ==
    \A i \in Requests :
        Generated(i) => [path |-> pdf_path[i], writer |-> i] \in files

\* What does hold of C13: runs whose documents were generated in different
\* seconds, or for different clients or forms, keep their own file.
RunsIsolatedUnlessSameSecond ==
    \A i \in Requests :
        (Generated(i) /\ \A j \in Requests \ {i} : pdf_path[j] # pdf_path[i])
            => [path |-> pdf_path[i], writer |-> i] \in files

\* The text left once a leading markdown fence (with its json tag) and the
\* whitespace around it are taken off
TrimWs(text) ==
    LET keep == {k \in 1..Len(text) : text[k] # WS} IN
    IF keep = {} THEN <<>>
    ELSE SubSeq(text, CHOOSE a \in keep : \A k \in keep : a <= k,
                      CHOOSE z \in keep : \A k \in keep : z >= k)
FencedBody(text) ==
    LET t == TrimWs(text)
        rest == Tail(t)
        fences == {k \in 1..Len(rest) : rest[k] = FENCE}
        inner == IF fences = {} THEN rest
                 ELSE SubSeq(rest, 1, (CHOOSE a \in fences : \A k \in fences : a <= k) - 1)
    IN  IF t # <<>> /\ t[1] = FENCE
        THEN TrimWs(IF inner # <<>> /\ inner[1] = JSONWORD THEN Tail(inner) ELSE inner)
        ELSE t
ParseableJson(text) == FencedBody(text) = <<DOC>>

\* C20: when the text of the reply, after the fence is stripped, is not
\* parseable JSON, extract returns the error-marker record and quick_extract
\* the fallback {first_name: null, last_name: null, missing_fields: ["name"]};
\* neither raises.
C20_MalformedByValue ==
    (xreply.kind = "text" /\ ~ParseableJson(xreply.text)) =>
        /\ xfull # NoOutcome =>
              /\ xfull.ok
              /\ xfull.value.t = "dict" /\ "error" \in DOMAIN xfull.value.d
        /\ xquick # NoOutcome =>
              xquick = [ok |-> TRUE,
                        value |-> DictV([first_name |-> None, last_name |-> None,
                                         missing_fields |-> ListV(1)])]

\* C20 witness: both have returned on a fenced reply whose body is not JSON.
C20_Witness ==
    /\ xreply.kind = "text"
    /\ Len(xreply.text) >= 3 /\ xreply.text[1] = FENCE /\ xreply.text[2] = JSONWORD
    /\ ~ParseableJson(xreply.text)
    /\ xfull # NoOutcome /\ xfull.ok /\ "error" \in DOMAIN xfull.value.d
    /\ xquick # NoOutcome /\ xquick.ok

\* The clean-up agrees with the reading of "after stripping a markdown fence"
\* used above: a reply is parsed exactly when that text is one JSON document.
ParsedWhenParseable ==
    (xreply.kind = "text" /\ xfull # NoOutcome) =>
        (xfull.value = xreply.value <=> ParseableJson(xreply.text))

----------------------------------------------------------------------------
(* Properties of the run on an extraction that failed to parse *)

CarriesErrorMarker(v) == IsDict(v) /\ "error" \in DOMAIN v.d

\* C21: when Extract returned the record carrying the error marker, the run
\* stops there: Validate, Generate Document and Notify are not called on that
\* record, no document is generated and no notification is sent for it.
C21_ErrorMarkerAborts ==
    \A i \in Requests :
        (CarriesErrorMarker(rdata[i]) /\ pc[i] # "validate") =>
            /\ calls[i] = <<"extract">>
            /\ pc[i] = "failed"
            /\ ~Generated(i)
            /\ sent[i] = "none"

\* What does hold of C21: the error-marker record is never the subject of a
\* notification that was sent, because the notifier raises on every record.
ErrorMarkerNeverNotified ==
    \A i \in Requests :
        CarriesErrorMarker(rdata[i]) => sent[i] \in {"none", "raise"}

----------------------------------------------------------------------------
(* Properties of validate on particular records, checked under SpecV *)

KnownForms == {"individual", "corporate", "trade"}

\* C22: validate on the record with every field absent lists every required
\* field of the form as missing and returns is_valid = FALSE and
\* follow_up_needed = TRUE, for each of the three forms; for the individual
\* form these are twelve fields, the tier is NON_ELIGIBLE and there are no
\* red flags and no suitability concerns.
C22_EmptyRecord ==
    [][(data = EmptyDict /\ form_type \in KnownForms) =>
          /\ vstate' = "returned"
          /\ result'.missing_required = REQUIRED_FIELDS(form_type)
          /\ ~result'.is_valid
          /\ result'.follow_up_needed
          /\ form_type = "individual" =>
                /\ Len(result'.missing_required) = 12
                /\ result'.exemption_status = "NON_ELIGIBLE"
                /\ result'.red_flags = <<>>
                /\ result'.suitability_concerns = <<>>]_vars

\* C22 witness: the report for the empty record under the trade form, whose
\* four required fields are all missing.
C22_Witness ==
    /\ Returned /\ form_type = "trade"
    /\ data = MkDict([exemption_status |->
                        MkDict([is_accredited |-> BoolV(FALSE), is_eligible |-> BoolV(FALSE),
                                accreditation_reason |-> None])])
    /\ Len(result.missing_required) = 4
    /\ ~result.is_valid /\ result.follow_up_needed

\* The record without its exemption-status section
RestOf(v) ==
    IF IsDict(v) THEN DictV([k \in DOMAIN v.d \ {"exemption_status"} |-> v.d[k]]) ELSE v
StoredReason(v) ==
    IF IsDict(v) /\ "exemption_status" \in DOMAIN v.d /\ IsDict(v.d.exemption_status)
    THEN DictGet(v.d.exemption_status, "accreditation_reason", None)
    ELSE None

\* C23: a second call of validate on the record the first call wrote into,
\* with the same form type, ends as the first did, with the same exemption
\* tier and the same accreditation reason, and the record outside its
\* exemption-status section is as it was before the first call.
C23_Idempotent ==
    [][(again'.called /\ ~again.called) =>
          /\ again'.ok = (vstate = "returned")
          /\ again'.result.exemption_status = result.exemption_status
          /\ StoredReason(data') = StoredReason(data)
          /\ RestOf(data') = RestOf(before)]_vars

\* C23 witness: two calls that returned ELIGIBLE on a record whose extractor
\* had marked it accredited, so the second call read flags the first rewrote.
C23_Witness ==
    /\ again.called /\ again.ok
    /\ IsDict(before) /\ "exemption_status" \in DOMAIN before.d
    /\ IsDict(before.d.exemption_status)
    /\ DictGet(before.d.exemption_status, "is_accredited", None) = BoolV(TRUE)
    /\ SectionFlag("is_accredited") = BoolV(FALSE)
    /\ result.exemption_status = "ELIGIBLE"
    /\ again.result.exemption_status = "ELIGIBLE"

----------------------------------------------------------------------------
(* Properties of the acknowledgment *)

QuickRaised(i) == quick[i] # NoOutcome /\ ~quick[i].ok

\* C24: when quick_extract raised, the request is still acknowledged with
\* status 'processing', client name 'Unknown' or null, zero extracted fields,
\* an empty missing-fields list and an empty red-flag list, and one
\* background run is queued for it.
C24_QuickFailureAcknowledged ==
    \A i \in Requests :
        QuickRaised(i) =>
            /\ hstate[i] = "responded"
            /\ response[i].status = "processing"
            /\ response[i].client_name \in {StrV(<<"Unknown">>), None}
            /\ response[i].fields_extracted = 0
            /\ response[i].missing_fields = ListV(0)
            /\ response[i].red_flags = ListV(0)
            /\ queued[i] = 1

\* C24 witness: the background run of a request whose quick extract raised
\* has started and called Extract.
C24_Witness ==
    \E i \in Requests :
        /\ QuickRaised(i)
        /\ response[i].client_name = StrV(<<"Unknown">>)
        /\ calls[i] = <<"extract">>

----------------------------------------------------------------------------
(* Properties of the synchronous endpoint, checked under SpecSync *)

SyncFlag(key) ==
    IF IsDict(sresp.extracted_data)
    THEN DictGet(DictGet(sresp.extracted_data, "exemption_status", EmptyDict), key, None)
    ELSE None

\* C25: the synchronous endpoint runs Extract and Validate only: no document
\* is generated, no notification is sent and no background run is queued or
\* started, for any request; the body it returns holds the record with
\* Validate's write-back in it and the complete report for that record.
C25_SyncExtractValidateOnly ==
    /\ files = {}
    /\ \A i \in Requests :
          /\ queued[i] = 0 /\ pc[i] = "none" /\ calls[i] = <<>>
          /\ pdf_path[i] = NoPath /\ sent[i] = "none"
    /\ sstate = "responded" =>
          /\ sresp.status = "success"
          /\ sresp.extracted_data = sdata
          /\ sresp.validation.kind = "ValidationResult"
          /\ FlagsAgree(SyncFlag("is_accredited"), SyncFlag("is_eligible"),
                        SyncFlag("accreditation_reason"),
                        sresp.validation.fields.exemption_status)
          /\ sresp.validation.fields = validate(sresp.extracted_data, sreq.form_type).result
    /\ sstate # "responded" => sresp = NoSyncResponse

\* C25 witness: a body whose record says accredited, as Validate decided, for
\* an extraction that said eligible, with nothing generated, sent or queued.
C25_Witness ==
    /\ sstate = "responded"
    /\ DictGet(GoodRecord, "exemption_status", EmptyDict).d.is_accredited = BoolV(FALSE)
    /\ SyncFlag("is_accredited") = BoolV(TRUE)
    /\ sresp.validation.fields.exemption_status = "ACCREDITED"
    /\ files = {}

----------------------------------------------------------------------------
(* Properties of the suitability and AML checks, checked under SpecV *)

SectionOf(key) == IF IsDict(data) THEN DictGet(data, key, EmptyDict) ELSE None
ProfileField(key) ==
    IF IsDict(SectionOf("investment_profile"))
    THEN DictGet(SectionOf("investment_profile"), key, None) ELSE None
DobField ==
    IF IsDict(SectionOf("personal")) THEN DictGet(SectionOf("personal"), "dob", None) ELSE None

\* The year a date of birth starts with, or -1 when it starts with none
BirthYear ==
    LET c == DobField.s IN
    IF /\ DobField.t = "str" /\ Len(c) >= 4
       /\ \A k \in 1..4 : IsDigit(c[k])
       /\ (Len(c) = 4 \/ c[5] = "-")
    THEN 1000 * DigitValue(c[1]) + 100 * DigitValue(c[2]) + 10 * DigitValue(c[3]) + DigitValue(c[4])
    ELSE -1
AgeKnown == BirthYear >= 0
Age == CurrentYear - BirthYear
RetirementKnown ==
    ProfileField("planned_retirement_year").t = "int" /\ ProfileField("planned_retirement_year").n > 0

\* The conditions of the six checks, each with the message it adds
SuitabilityConditions ==
    [tolerance_exceeds_capacity |->
        /\ ProfileField("risk_tolerance") = StrV(HIGH)
        /\ ProfileField("risk_capacity") \in {StrV(LOW), StrV(NIL)},
     growth_low_tolerance |->
        /\ ProfileField("investment_objective") = StrV(GROWTH)
        /\ ProfileField("risk_tolerance") = StrV(LOW),
     income_high_tolerance |->
        /\ ProfileField("investment_objective") = StrV(INCOME)
        /\ ProfileField("risk_tolerance") = StrV(HIGH),
     horizon_vs_retirement |->
        /\ ProfileField("time_horizon") = StrV(TenPlus)
        /\ RetirementKnown
        /\ ProfileField("planned_retirement_year").n - CurrentYear < 5,
     age_high_risk |->
        AgeKnown /\ Age >= 65 /\ ProfileField("risk_tolerance") = StrV(HIGH),
     age_long_horizon |->
        AgeKnown /\ Age >= 70 /\ ProfileField("time_horizon") = StrV(TenPlus)]
SuitabilityIds == DOMAIN SuitabilityConditions
ConditionsMet == {id \in SuitabilityIds : SuitabilityConditions[id]}

\* The items the suitability checks put into a report: concerns, and the
\* income-objective warning
SuitabilityItems(r) ==
    SelectSeq(r.suitability_concerns, LAMBDA m : m.id \in SuitabilityIds)
        \o SelectSeq(r.warnings, LAMBDA m : m.id \in SuitabilityIds)
ItemIds(items) == {items[k].id : k \in 1..Len(items)}
ExactlyTheConditionsMet(r) ==
    /\ ItemIds(SuitabilityItems(r)) = ConditionsMet
    /\ Len(SuitabilityItems(r)) = Cardinality(ConditionsMet)
    /\ HasMsg(r.warnings, "income_high_tolerance") <=> SuitabilityConditions.income_high_tolerance
    /\ ~HasMsg(r.suitability_concerns, "income_high_tolerance")

ProfileSectionsOk ==
    /\ IsDict(data)
    /\ IsDict(SectionOf("investment_profile"))
    /\ IsDict(SectionOf("personal"))

DobIsText == DobField.t = "str" \/ ~Truthy(DobField)
RetirementIsNumber ==
    IsNum(ProfileField("planned_retirement_year")) \/ ~Truthy(ProfileField("planned_retirement_year"))

\* C26: on a record whose profile and personal sections are there and whose
\* retirement year is a number or not given, the suitability checker never
\* raises, whatever the date of birth holds, and it adds exactly one item for
\* each of the six conditions that holds: a date of birth with no year to
\* parse adds nothing and stops none of the other checks.
C26_SuitabilityIndependent ==
    /\ (vstate = "ready" /\ ProfileSectionsOk /\ RetirementIsNumber) =>
          LET out == _check_suitability(data, ValidationResult)
          IN  out.ok /\ ExactlyTheConditionsMet(out.result)
    /\ (Returned /\ ProfileSectionsOk) => ExactlyTheConditionsMet(result)

\* What does hold of C26: when the date of birth is text (or not given), the
\* checker returns and the items are exactly those of the conditions met.
SuitabilityIndependentOnText ==
    /\ (vstate = "ready" /\ ProfileSectionsOk /\ DobIsText /\ RetirementIsNumber) =>
          LET out == _check_suitability(data, ValidationResult)
          IN  out.ok /\ ExactlyTheConditionsMet(out.result)
    /\ (Returned /\ ProfileSectionsOk) => ExactlyTheConditionsMet(result)

\* Five conditions met at once, five items in the report
FiveItemsTogether ==
    /\ Returned
    /\ Cardinality(ConditionsMet) = 5
    /\ Len(SuitabilityItems(result)) = 5
\* A date of birth that is text with no year in front, and another check fired
UnparsedDobSkipped ==
    /\ Returned
    /\ DobField = DobBad
    /\ ConditionsMet # {}
    /\ ExactlyTheConditionsMet(result)

AmlFlagTrue(key) == IsDict(AmlOf) /\ DictGet(AmlOf, key, None) = BoolV(TRUE)
BorrowedTrue ==
    IsDict(FinancialsOf) /\ DictGet(FinancialsOf, "borrowed_to_invest", None) = BoolV(TRUE)
NfaLarge == NfaFigure.t = "int" /\ NfaFigure.n >= 1000000
IdIf(cond, id) == IF cond THEN <<id>> ELSE <<>>
IdsOf(list) == [k \in 1..Len(list) |-> list[k].id]
AmlWarningIds == {"borrowed_funds", "nfa_verification"}

\* The red flags and the AML warnings a report should hold, by message
ExpectedRedFlags == IdIf(AmlFlagTrue("is_pep"), "pep") \o IdIf(AmlFlagTrue("is_hio"), "hio")
ExpectedAmlWarnings == IdIf(BorrowedTrue, "borrowed_funds") \o IdIf(NfaLarge, "nfa_verification")
AmlAsExpected(r) ==
    /\ IdsOf(r.red_flags) = ExpectedRedFlags
    /\ IdsOf(SelectSeq(r.warnings, LAMBDA m : m.id \in AmlWarningIds)) = ExpectedAmlWarnings
    /\ \A k \in 1..Len(r.red_flags) : r.red_flags[k].id = "hio" => r.red_flags[k] = Msg("hio", 0)

AmlSectionsOk ==
    /\ IsDict(data) /\ IsDict(AmlOf) /\ IsDict(FinancialsOf)
    /\ NfaFigure.t \in {"null", "int"}

\* C27: the red flags of a report are one for a true PEP flag, then one, with
\* a fixed message, for a true HIO flag, and nothing else; its AML warnings
\* are one for borrowed-to-invest true, then one for net financial assets of
\* 1,000,000 or more, each whatever the other three are; a record with none
\* of the four gets no red flag and no AML warning.
C27_AmlIndependent ==
    /\ (vstate = "ready" /\ AmlSectionsOk) =>
          LET out == _check_aml_flags(data, ValidationResult)
          IN  out.ok /\ AmlAsExpected(out.result)
    /\ Returned => AmlAsExpected(result)

\* C27 witness: a report with both red flags, PEP first, and both AML
\* warnings, borrowed funds first.
C27_Witness ==
    /\ Returned
    /\ IdsOf(result.red_flags) = <<"pep", "hio">>
    /\ BorrowedTrue /\ NfaLarge
    /\ HasMsg(result.warnings, "borrowed_funds")
    /\ HasMsg(result.warnings, "nfa_verification")

\* Only the verification warning: no flag and no borrowed funds
NfaWarningAlone ==
    /\ Returned
    /\ result.red_flags = <<>>
    /\ ~BorrowedTrue /\ NfaLarge
    /\ HasMsg(result.warnings, "nfa_verification")
    /\ ~HasMsg(result.warnings, "borrowed_funds")

\* The place of each warning in the order the sub-checkers add them
WarningRank(id) ==
    CASE id \in {"eligible_100k_limit", "non_eligible_10k_limit"} -> 1
      [] id = "income_high_tolerance" -> 2
      [] id = "borrowed_funds" -> 3
      [] id = "nfa_verification" -> 4
      [] id = "concentration_over_10" -> 5
      [] OTHER -> 0
StandingWarning(tier) ==
    CASE tier = "ELIGIBLE" -> "eligible_100k_limit"
      [] tier = "NON_ELIGIBLE" -> "non_eligible_10k_limit"
      [] OTHER -> "none"
InSubCheckerOrder(r) ==
    /\ \A k \in 1..Len(r.warnings) : WarningRank(r.warnings[k].id) > 0
    /\ \A j, k \in 1..Len(r.warnings) :
          j < k => WarningRank(r.warnings[j].id) < WarningRank(r.warnings[k].id)
    /\ r.exemption_status \in {"ELIGIBLE", "NON_ELIGIBLE"} =>
          (r.warnings # <<>> /\ r.warnings[1].id = StandingWarning(r.exemption_status))
    /\ r.exemption_status = "ACCREDITED" =>
          \A k \in 1..Len(r.warnings) : WarningRank(r.warnings[k].id) # 1
    /\ \A k \in 1..Len(r.suitability_concerns) :
          r.suitability_concerns[k].id = "concentration_over_25"
              => k = Len(r.suitability_concerns)

\* C28: in every report the warnings stand in the order the sub-checkers add
\* them: the standing warning of an ELIGIBLE or NON_ELIGIBLE tier first
\* (ACCREDITED has none), then the income-objective warning, the
\* borrowed-funds warning, the NFA-verification warning and the concentration
\* warning; the concentration concern is the last suitability concern.
C28_SubCheckerOrder ==
    Returned => InSubCheckerOrder(result)

\* C28 witness: a report with the standing warning, the income-objective
\* warning, the borrowed-funds warning and the concentration warning in that
\* order, and the concentration concern after four suitability concerns.
C28_Witness ==
    /\ Returned
    /\ IdsOf(result.warnings) = <<"eligible_100k_limit", "income_high_tolerance",
                                  "borrowed_funds", "concentration_over_10">>
    /\ Len(result.suitability_concerns) = 5
    /\ result.suitability_concerns[5].id = "concentration_over_25"

\* For an accredited client the NFA-verification warning stands between the
\* borrowed-funds warning and the concentration warning.
AccreditedWarningOrder ==
    /\ Returned
    /\ result.exemption_status = "ACCREDITED"
    /\ IdsOf(result.warnings) = <<"income_high_tolerance", "borrowed_funds",
                                  "nfa_verification", "concentration_over_10">>

----------------------------------------------------------------------------
(* Properties of the field accessor, checked under SpecNested *)

\* The segments of the path, read off its shape: a key token is a segment,
\* and so is the empty text before, between or after separators.
Segments ==
    CASE field_path = <<>> -> <<"">>
      [] field_path = <<Dot>> -> <<"", "">>
      [] Len(field_path) = 1 -> <<field_path[1]>>
      [] Len(field_path) = 2 /\ field_path[2] = Dot -> <<field_path[1], "">>
      [] Len(field_path) = 2 /\ field_path[1] = Dot -> <<"", field_path[2]>>
      [] Len(field_path) = 3 -> <<field_path[1], field_path[3]>>
      [] OTHER -> <<field_path[1], field_path[3], field_path[5]>>

Keyed(v) == v.t = "dict"
HasKey(v, key) == Keyed(v) /\ key \in DOMAIN v.d
\* The nodes met on the way: the record, then the value under each segment
Node1 == IF HasKey(data, Segments[1]) THEN data.d[Segments[1]] ELSE None
Node2 == IF HasKey(Node1, Segments[2]) THEN Node1.d[Segments[2]] ELSE None
Node3 == IF HasKey(Node2, Segments[3]) THEN Node2.d[Segments[3]] ELSE None
EverySegmentResolves ==
    /\ HasKey(data, Segments[1])
    /\ Len(Segments) >= 2 => HasKey(Node1, Segments[2])
    /\ Len(Segments) >= 3 => HasKey(Node2, Segments[3])
ValueAtPath ==
    CASE Len(Segments) = 1 -> Node1
      [] Len(Segments) = 2 -> Node2
      [] OTHER -> Node3

\* C29: for every record and every dotted path the accessor returns the
\* value at the path when every segment resolves through a keyed structure,
\* and the absent result when a segment is missing or a node on the way is
\* not keyed, the record itself included; so a missing path and an explicit
\* null give the same result.
C29_AccessorTotal ==
    nested.called =>
        /\ EverySegmentResolves => nested.value = ValueAtPath
        /\ ~EverySegmentResolves => nested.value = None

\* C29 witness: the path a.b asked of a record whose a is a number, not a
\* keyed structure: the absent result.
C29_Witness ==
    /\ nested.called
    /\ field_path = <<"a", Dot, "b">>
    /\ HasKey(data, "a") /\ data.d["a"] = IntV(0)
    /\ nested.value = None

\* A value found two levels down, and an explicit null found at its path
DeepValueFound ==
    /\ nested.called
    /\ field_path = <<"a", Dot, "b", Dot, "a">>
    /\ nested.value = StrV(SomeText)
ExplicitNullFound ==
    /\ nested.called
    /\ EverySegmentResolves
    /\ nested.value = None

\* What quick_extract reported under a key, when it returned an object
Reported(i, key) ==
    IF quick[i].ok /\ IsDict(quick[i].value) THEN DictGet(quick[i].value, key, StrV(<<>>)) ELSE None
QuickReturnedNames(i) ==
    /\ quick[i] # NoOutcome /\ quick[i].ok /\ IsDict(quick[i].value)
    /\ hstate[i] = "responded"
NameStated(v) == v.t = "str" /\ v.s # <<>>

\* C30: when quick_extract returned a null first name or a null last name,
\* the client name of the acknowledgment is null if both are null and is the
\* one stated name if only one is null: no text made from a null is in it.
C30_NameOnlyFromStatedNames ==
    \A i \in Requests :
        QuickReturnedNames(i) =>
            LET first == Reported(i, "first_name")
                last == Reported(i, "last_name")
            IN  /\ (first = None /\ last = None) => response[i].client_name = None
                /\ (first = None /\ NameStated(last)) => response[i].client_name = last
                /\ (NameStated(first) /\ last = None) => response[i].client_name = first

\* What does hold of C30: when neither name is null (each is text, empty
\* text, or its key is left out), the client name is the stated names joined
\* by one space, or null when there is none.
NameFromTextNames ==
    \A i \in Requests :
        QuickReturnedNames(i) =>
            LET first == Reported(i, "first_name")
                last == Reported(i, "last_name")
            IN  (first.t = "str" /\ last.t = "str") =>
                    response[i].client_name =
                        CASE NameStated(first) /\ NameStated(last) ->
                                StrV(first.s \o <<Space>> \o last.s)
                          [] NameStated(first) -> first
                          [] NameStated(last) -> last
                          [] OTHER -> None

\* The acknowledgment for a reply with both names null
BothNullAcknowledged ==
    \E i \in Requests :
        /\ QuickReturnedNames(i)
        /\ Reported(i, "first_name") = None /\ Reported(i, "last_name") = None
        /\ response[i].client_name = StrV(<<"N", "o", "n", "e", " ", "N", "o", "n", "e">>)

====
